---- MODULE Spec2Model ----
(***************************************************************************)
(* Model of the delta deployment engine (internal/deploy): the target      *)
(* filesystem (release directories, hardlinked files, the `current`        *)
(* symlink and its temporary sibling `current.new`), the local build       *)
(* directory `public`, and the operations of the orchestrator and of the   *)
(* two Deployer backends (LocalDeployer, RemoteDeployer).                  *)
(***************************************************************************)
EXTENDS Integers, Sequences, FiniteSets, TLC

\* ---------------------------------------------------------------- bounds
MaxReleases == 2      \* releases created when every operation and fault may happen
MaxHistory == 3       \* releases created by a run of deploys alone; IDs 1..MaxHistory
MaxKeep == 2          \* env.KeepN ranges over 0..MaxKeep
MaxFault == 0         \* a failing upload stops after at most MaxFault files
MaxPartial == 1       \* the same, where interrupted uploads are what is studied
MaxDigest == 3        \* digests of the manifests handed to CalculateDelta: 1..MaxDigest
MaxSize == 2          \* sizes of the manifests handed to CalculateDelta: 1..MaxSize
MaxWorkers == 2       \* the workers argument of GenerateManifestWithWorkers: -1..MaxWorkers

RIDs == 1..MaxHistory   \* release IDs, handed out in creation order
NoRel == 0            \* "no link" / "no file" / empty release ID

\* ---------------------------------------------------------------- files
\* Relative paths of a build, in lexicographic order (sort.Strings order).
PathOrder == <<"a.txt", "build-manifest.json", "healthz.json", "index.html", "sw.js">>
PathSet == {PathOrder[i] : i \in 1..Len(PathOrder)}
ManifestName == "build-manifest.json"

\* A validation that forgets the service worker (mutation of requiredFiles).
requiredFilesNoServiceWorker == <<"healthz.json", "index.html">>

\* requiredFiles of Activate, in the order the loop checks them.
requiredFiles == <<"healthz.json", "index.html", "sw.js">>

\* File contents are sequences of integers; <<>> is "no such file".
NoFile == <<>>
EmptyTree == [p \in PathSet |-> NoFile]

PathIndex(p) == CHOOSE i \in 1..Len(PathOrder) : PathOrder[i] = p

\* The elements of a set of paths as a lexicographically sorted sequence.
RECURSIVE SortedFrom(_, _)
SortedFrom(S, i) ==
  IF i > Len(PathOrder) THEN <<>>
  ELSE (IF PathOrder[i] \in S THEN <<PathOrder[i]>> ELSE <<>>) \o SortedFrom(S, i + 1)
SortStrings(S) == SortedFrom(S, 1)

SeqToSet(s) == {s[i] : i \in 1..Len(s)}

\* ---------------------------------------------------------------- state
VARIABLES
  backend,     \* "local" (LocalDeployer) or "remote" (RemoteDeployer)
  releases,    \* releases/<id>: [exists, files: path -> inode owner (NoRel = absent)]
  inode,       \* inode (owner release, path) -> content; hardlinks share one inode
  mtime,       \* modification time of each release directory
  lastID,      \* newest release ID handed out so far (IDs order creation times)
  current,     \* target of the `current` symlink, NoRel when the link is absent
  tmpLink,     \* target of `current.new`, NoRel when absent
  public,      \* the local build directory: path -> content
  pc,          \* position of the running operation
  op,          \* parameters, locals and outcome of the running / last operation
  activated,   \* releases that `current` has pointed to (history)
  lastBuild,   \* the build of the last deploy while only successful deploys ran (history)
  deltaCall,   \* one CalculateDelta call: its two manifests and its result
  genCall,     \* one GenerateManifestWithWorkers call: channels, workers, manifest
  ioCall,      \* one WriteManifest call and the ReadManifest call on the file it wrote
  cfgCall,     \* one command start: deploy.toml, LoadConfig, GetEnvironment
  actCall      \* two concurrent Activate calls against one target

vars == <<backend, releases, inode, mtime, lastID, current, tmpLink, public, pc, op, activated,
          lastBuild, deltaCall, genCall, ioCall, cfgCall, actCall>>
sideVars == <<deltaCall, genCall, ioCall, cfgCall, actCall>>
targetVars == <<releases, inode, mtime, current, tmpLink>>

NoAct == [phase |-> "off"]

NoDir == [exists |-> FALSE, files |-> [p \in PathSet |-> NoRel]]
EmptyDir == [exists |-> TRUE, files |-> [p \in PathSet |-> NoRel]]

Exists(r) == r \in RIDs /\ releases[r].exists

\* Content of <release>/<path> as a reader sees it.
ContentIn(rels, ino, r, p) ==
  IF r \in RIDs /\ rels[r].exists /\ rels[r].files[p] # NoRel
  THEN ino[rels[r].files[p], p] ELSE NoFile
Content(r, p) == ContentIn(releases, inode, r, p)
Tree(r) == [p \in PathSet |-> Content(r, p)]

\* An inode whose last link is gone is freed.
FreeUnlinked(rels, ino) ==
  [c \in RIDs, p \in PathSet |->
     IF \E r \in RIDs : rels[r].exists /\ rels[r].files[p] = c
     THEN ino[c, p] ELSE NoFile]

\* ---------------------------------------------------------------- manifest
\* hashFile: digest and size of a file's content. SHA-256 is modelled as an
\* injective tagging of the content.
hashFile(content) == [SHA256 |-> 100 + content[1], Size |-> Len(content)]

\* A walk that does not skip the manifest file (mutation of collectFiles).
collectFilesWithManifest(dir) == {p \in PathSet : dir[p] # NoFile}

\* collectFiles: the regular files under dir, except build-manifest.json.
collectFiles(dir) == {p \in PathSet : dir[p] # NoFile /\ p # ManifestName}

\* GenerateManifestWithWorkers: one entry per collected file.
GenerateManifestWithWorkers(dir, releaseID) ==
  [ReleaseID |-> releaseID,
   Files |-> [p \in collectFiles(dir) |-> hashFile(dir[p])]]

EmptyManifest == [ReleaseID |-> NoRel, Files |-> <<>>]

\* WriteManifest: the JSON document, as the flat sequence
\* <<releaseId, sha(p1), size(p1), sha(p2), size(p2), ...>> over the paths in
\* order; a path that is no key of `files` is written as 0, 0.
RECURSIVE EncodeFiles(_, _)
EncodeFiles(files, i) ==
  IF i > Len(PathOrder) THEN <<>>
  ELSE (IF PathOrder[i] \in DOMAIN files
        THEN <<files[PathOrder[i]].SHA256, files[PathOrder[i]].Size>>
        ELSE <<0, 0>>) \o EncodeFiles(files, i + 1)
WriteManifest(m) == <<m.ReleaseID>> \o EncodeFiles(m.Files, 1)

\* ReadManifest: parse the document back; an unreadable or malformed file is an error.
ManifestReadable(doc) == Len(doc) = 1 + 2 * Len(PathOrder)
ReadManifest(doc) ==
  [ReleaseID |-> doc[1],
   Files |-> [p \in {q \in PathSet : doc[2 * PathIndex(q)] # 0} |->
                [SHA256 |-> doc[2 * PathIndex(p)], Size |-> doc[2 * PathIndex(p) + 1]]]]

\* A comparison that takes the size into account too (mutation of entryChanged).
entryChangedOrResized(local, remote, path) ==
  \/ path \notin DOMAIN remote.Files
  \/ remote.Files[path].SHA256 # local.Files[path].SHA256
  \/ remote.Files[path].Size # local.Files[path].Size

\* A comparison that finds every file changed (mutation of entryChanged).
entryAlwaysChanged(local, remote, path) == TRUE

\* The test of findChangedFiles: !exists || remoteInfo.SHA256 != info.SHA256.
entryChanged(local, remote, path) ==
  \/ path \notin DOMAIN remote.Files
  \/ remote.Files[path].SHA256 # local.Files[path].SHA256

\* findChangedFiles / findDeletedFiles / CalculateDelta, as the sets of paths
\* they return in sorted order.
findChangedFiles(local, remote) ==
  LET ch == {p \in DOMAIN local.Files : entryChanged(local, remote, p)}
  IN [changed |-> ch, unchanged |-> (DOMAIN local.Files) \ ch]
findDeletedFiles(local, remote) == (DOMAIN remote.Files) \ (DOMAIN local.Files)
CalculateDelta(local, remote) ==
  [Changed |-> SortStrings(findChangedFiles(local, remote).changed),
   Unchanged |-> SortStrings(findChangedFiles(local, remote).unchanged),
   Deleted |-> SortStrings(findDeletedFiles(local, remote))]

\* The orders in which a range loop may visit the keys of a map.
rangeOrders(files) ==
  {o \in [1..Cardinality(DOMAIN files) -> DOMAIN files] :
     \A i, j \in 1..Cardinality(DOMAIN files) : i # j => o[i] # o[j]}

\* findChangedFiles, its loop visiting the keys of local.Files in `order`:
\* each path is appended to changed or to unchanged.
RECURSIVE findChangedFilesIn(_, _, _)
findChangedFilesIn(local, remote, order) ==
  IF order = <<>> THEN [changed |-> <<>>, unchanged |-> <<>>]
  ELSE LET n == Len(order)
           rest == findChangedFilesIn(local, remote, SubSeq(order, 1, n - 1))
       IN IF entryChanged(local, remote, order[n])
          THEN [rest EXCEPT !.changed = Append(@, order[n])]
          ELSE [rest EXCEPT !.unchanged = Append(@, order[n])]

\* A loop whose test lost its negation: it reports the remote paths that
\* exist locally (mutation of findDeletedFilesIn).
RECURSIVE findKeptFilesIn(_, _, _)
findKeptFilesIn(local, remote, order) ==
  IF order = <<>> THEN <<>>
  ELSE LET n == Len(order)
           rest == findKeptFilesIn(local, remote, SubSeq(order, 1, n - 1))
       IN IF order[n] \in DOMAIN local.Files
          THEN Append(rest, order[n]) ELSE rest

\* findDeletedFiles, its loop visiting the keys of remote.Files in `order`.
RECURSIVE findDeletedFilesIn(_, _, _)
findDeletedFilesIn(local, remote, order) ==
  IF order = <<>> THEN <<>>
  ELSE LET n == Len(order)
           rest == findDeletedFilesIn(local, remote, SubSeq(order, 1, n - 1))
       IN IF order[n] \notin DOMAIN local.Files
          THEN Append(rest, order[n]) ELSE rest

\* A sort that leaves the slice as it is (mutation of sortStrings).
sortStringsNoop(s) == s

\* sort.Strings: the elements of s in ascending order, each as often as in s
\* (insertion sort, which the library uses for slices this short).
RECURSIVE insertString(_, _)
insertString(s, x) ==
  IF s = <<>> THEN <<x>>
  ELSE IF PathIndex(x) < PathIndex(Head(s)) THEN <<x>> \o s
  ELSE <<Head(s)>> \o insertString(Tail(s), x)
RECURSIVE sortStringsFrom(_, _)
sortStringsFrom(s, n) ==
  IF n = 0 THEN <<>> ELSE insertString(sortStringsFrom(s, n - 1), s[n])
sortStrings(s) == sortStringsFrom(s, Len(s))

\* CalculateDelta with the two range loops visiting the maps in the orders
\* localOrder and remoteOrder.
CalculateDeltaIn(local, remote, localOrder, remoteOrder) ==
  [Changed |-> sortStrings(findChangedFilesIn(local, remote, localOrder).changed),
   Unchanged |-> sortStrings(findChangedFilesIn(local, remote, localOrder).unchanged),
   Deleted |-> sortStrings(findDeletedFilesIn(local, remote, remoteOrder))]

\* ---------------------------------------------------------------- target filesystem
\* The part of the target an operation rewrites, passed around as one value.
FS == [releases |-> releases, inode |-> inode, mtime |-> mtime]

\* Directory modification times: creating the directory of release r happens
\* at time 2r, creating entries in it during the upload of the same deploy at
\* time 2r + 1 (later deploys have later release IDs, hence later times).
MkdirTime(r) == 2 * r
UploadTime(r) == 2 * r + 1

\* os.RemoveAll(releaseDir) / rm -rf releaseDir.
RemoveAll(fs, r) ==
  LET rels == [fs.releases EXCEPT ![r] = NoDir]
  IN [releases |-> rels,
      inode |-> FreeUnlinked(rels, fs.inode),
      mtime |-> [fs.mtime EXCEPT ![r] = 0]]

RECURSIVE RemoveEach(_, _)
RemoveEach(fs, S) ==
  IF S = {} THEN fs
  ELSE LET r == CHOOSE x \in S : TRUE IN RemoveEach(RemoveAll(fs, r), S \ {r})

\* A CreateRelease that starts every release empty (mutation of HardlinkCopy).
HardlinkCopyNothing(fs, src, r) ==
  [releases |-> [fs.releases EXCEPT ![r] = EmptyDir],
   inode |-> fs.inode,
   mtime |-> [fs.mtime EXCEPT ![r] = MkdirTime(r)]]

\* cp -al <resolved current> releases/<r>: every file of the source is
\* hardlinked (same inode) and the directory keeps the source's timestamps.
HardlinkCopy(fs, src, r) ==
  [releases |-> [fs.releases EXCEPT ![r] = fs.releases[src]],
   inode |-> fs.inode,
   mtime |-> [fs.mtime EXCEPT ![r] = fs.mtime[src]]]

\* os.MkdirAll(releaseDir) / mkdir -p releaseDir.
Mkdir(fs, r) ==
  [releases |-> [fs.releases EXCEPT ![r] = EmptyDir],
   inode |-> fs.inode,
   mtime |-> [fs.mtime EXCEPT ![r] = MkdirTime(r)]]

\* A new regular file releases/<r>/<p> with its own inode.
CreateFile(fs, r, p, content) ==
  LET rels == [fs.releases EXCEPT ![r].files[p] = r]
  IN [releases |-> rels,
      inode |-> [FreeUnlinked(rels, fs.inode) EXCEPT ![r, p] = content],
      mtime |-> [fs.mtime EXCEPT ![r] = UploadTime(r)]]

\* copyFile: os.OpenFile(dst, O_WRONLY|O_CREATE|O_TRUNC) then io.Copy. An
\* existing dst is truncated and rewritten in place: the inode, and with it
\* every hardlink to it, gets the new content. A missing dst is created.
copyFile(fs, r, p, content) ==
  IF fs.releases[r].files[p] # NoRel
  THEN [fs EXCEPT !.inode[fs.releases[r].files[p], p] = content]
  ELSE CreateFile(fs, r, p, content)

\* tar -xf - (GNU tar): an existing entry is removed before the member is
\* extracted, so the extracted file always has an inode of its own.
tarExtract(fs, r, p, content) == CreateFile(fs, r, p, content)

\* The first k files of `files` written into release r from buildDir.
RECURSIVE LocalCopy(_, _, _, _, _)
LocalCopy(fs, buildDir, r, files, k) ==
  IF k = 0 THEN fs
  ELSE copyFile(LocalCopy(fs, buildDir, r, files, k - 1), r, files[k], buildDir[files[k]])

RECURSIVE RemoteExtract(_, _, _, _, _)
RemoteExtract(fs, buildDir, r, files, k) ==
  IF k = 0 THEN fs
  ELSE tarExtract(RemoteExtract(fs, buildDir, r, files, k - 1), r, files[k], buildDir[files[k]])

\* filepath.Walk(buildDir): every regular file of the build, in lexical order.
WalkFiles(buildDir) == SortStrings({p \in PathSet : buildDir[p] # NoFile})

\* ---------------------------------------------------------------- ListReleases
ExistingReleases == {r \in RIDs : releases[r].exists}

\* The Release value of directory r (Path is releases/<ID>).
Release(r) == [ID |-> r, CreatedAt |-> mtime[r], Current |-> (current = r)]

\* sort.Slice by CreatedAt.After: newest first; releases with equal times may
\* come out in any order (sort.Slice is not stable).
SortedNewestFirst(l) ==
  \A i, j \in 1..Len(l) : i < j => l[i].CreatedAt >= l[j].CreatedAt

ListReleases ==
  {l \in [1..Cardinality(ExistingReleases) -> {Release(r) : r \in ExistingReleases}] :
     /\ \A i, j \in 1..Len(l) : i # j => l[i].ID # l[j].ID
     /\ SortedNewestFirst(l)}

\* ls -1t in releases/: newest first, equal times in name order.
lsNewestFirst ==
  CHOOSE l \in ListReleases :
    \A i, j \in 1..Len(l) : (i < j /\ l[i].CreatedAt = l[j].CreatedAt) => l[i].ID < l[j].ID

\* findPreviousRelease / the loop of Rollback(""): the first release that is
\* not current, NoRel when there is none.
findPreviousRelease(l) ==
  IF \E i \in 1..Len(l) : ~l[i].Current
  THEN l[CHOOSE i \in 1..Len(l) : ~l[i].Current /\ \A j \in 1..(i - 1) : l[j].Current].ID
  ELSE NoRel

\* LocalDeployer.Cleanup: the releases past the first keepN, except the current one.
LocalCleanupSet(l, keepN) ==
  IF Len(l) <= keepN THEN {}
  ELSE {l[i].ID : i \in {j \in (keepN + 1)..Len(l) : ~l[j].Current}}

\* RemoteDeployer.Cleanup: ls -1t | tail -n +(keepN+1) | xargs -r rm -rf.
RemoteCleanupSet(keepN) ==
  {lsNewestFirst[i].ID : i \in (keepN + 1)..Len(lsNewestFirst)}

\* ---------------------------------------------------------------- operations
Backends == {"local", "remote"}

NoOp ==
  [name |-> "none", releaseID |-> NoRel, target |-> NoRel, DryRun |-> FALSE,
   Full |-> FALSE, KeepN |-> 0, changed |-> <<>>, deleted |-> <<>>,
   remoteEmpty |-> TRUE,
   calls |-> <<>>, status |-> "none", err |-> "", warnings |-> {},
   fetchErr |-> "",
   preCurrent |-> NoRel, preLive |-> EmptyTree, preTmp |-> NoRel]

\* The site files of a build directory: everything but the manifest file,
\* which each deploy generates anew.
BuildFiles(dir) == [p \in PathSet |-> IF p = ManifestName THEN NoFile ELSE dir[p]]

\* Values of lastBuild: no deploy yet; the build of the last deploy, all
\* operations so far having been successful deploys; something else happened.
NoDeployYet == [state |-> "none", files |-> EmptyTree]
Deployed(dir) == [state |-> "deployed", files |-> BuildFiles(dir)]
Disturbed == [state |-> "disturbed", files |-> EmptyTree]

\* No CalculateDelta / GenerateManifestWithWorkers call is being followed.
NoDelta == [phase |-> "off"]
NoGen == [phase |-> "off"]
NoIO == [phase |-> "off"]
NoCfg == [phase |-> "off"]

\* The deployment part of the initial state: an empty target, an empty build.
DeployInit ==
  /\ backend \in Backends
  /\ releases = [r \in RIDs |-> NoDir]
  /\ inode = [c \in RIDs, p \in PathSet |-> NoFile]
  /\ mtime = [r \in RIDs |-> 0]
  /\ lastID = 0
  /\ current = NoRel
  /\ tmpLink = NoRel
  /\ public = EmptyTree
  /\ pc = "idle"
  /\ op = NoOp
  /\ activated = {}
  /\ lastBuild = NoDeployYet

Init ==
  /\ DeployInit
  /\ deltaCall = NoDelta
  /\ genCall = NoGen
  /\ ioCall = NoIO
  /\ cfgCall = NoCfg
  /\ actCall = NoAct

SetFS(fs) ==
  /\ releases' = fs.releases
  /\ inode' = fs.inode
  /\ mtime' = fs.mtime

\* An operation returns to its caller, the command, which reports the outcome:
\* the outcome stays, the locals are gone.
Return(o, status, err) ==
  /\ pc' = "done"
  /\ op' = [NoOp EXCEPT !.name = o.name, !.releaseID = o.releaseID,
                         !.DryRun = o.DryRun, !.calls = o.calls,
                         !.changed = IF o.DryRun THEN o.changed ELSE <<>>,
                         !.deleted = IF o.DryRun THEN o.deleted ELSE <<>>,
                         !.warnings = o.warnings, !.fetchErr = o.fetchErr,
                         !.status = status, !.err = err]

Called(o, name) == [o EXCEPT !.calls = Append(o.calls, name)]

\* BuildHugo: the external builder rewrites the site files under public/ with
\* RELEASE_ID in its environment; healthz.json embeds the release ID. It leaves
\* a build-manifest.json of an earlier run where it is. `v` is the version of
\* a.txt the sources produce (0: no such page), `missing` a file the build
\* fails to emit.
BuildHugo(dir, releaseID, v, missing) ==
  [p \in PathSet |->
     IF p = ManifestName THEN dir[p]
     ELSE IF p = missing THEN NoFile
     ELSE IF p = "a.txt" THEN (IF v = 0 THEN NoFile ELSE <<v>>)
     ELSE IF p = "healthz.json" THEN <<releaseID>>
     ELSE <<1>>]

\* FetchManifest: build-manifest.json read through the current symlink
\* (ReadManifest locally, `cat` over ssh remotely). TRUE when it fails.
FetchManifestFails(transportOK) ==
  \/ backend = "remote" /\ ~transportOK
  \/ ~ManifestReadable(Content(current, ManifestName))

\* The error FetchManifest returns: the ssh command failed, the file is not
\* there, or its content does not parse; "" when it returns a manifest.
FetchError(transportOK) ==
  IF backend = "remote" /\ ~transportOK THEN "transport"
  ELSE IF Content(current, ManifestName) = NoFile THEN "not found"
  ELSE IF ~ManifestReadable(Content(current, ManifestName)) THEN "parse"
  ELSE ""

\* fetchRemoteManifest: any FetchManifest error counts as a first deploy.
fetchRemoteManifest(transportOK) ==
  IF FetchManifestFails(transportOK) THEN EmptyManifest
  ELSE ReadManifest(Content(current, ManifestName))

\* A Deploy that ignores the dry-run option (mutation of AfterDelta).
AfterDeltaIgnoringDryRun(dryRun) == "create"

\* Where Deploy goes after the delta is computed: opts.DryRun returns.
AfterDelta(dryRun) == IF dryRun THEN "done" ELSE "create"

\* Deploy, from its entry to the dry-run test: buildAndGenerateManifest,
\* fetchRemoteManifest, CalculateDelta. `limit` bounds the release IDs.
DeployWithin(limit, dryRun, full, noBuild, v, missing, hugoOK, transportOK) ==
  /\ pc = "idle"
  /\ lastID < limit \/ dryRun
  /\ noBuild => (v = 0 /\ missing = "" /\ hugoOK)
  /\ dryRun => ~full
  /\ backend = "local" => transportOK
  /\ LET releaseID == lastID + 1
         built == IF noBuild THEN public ELSE BuildHugo(public, releaseID, v, missing)
         localManifest == GenerateManifestWithWorkers(built, releaseID)
         remoteManifest == fetchRemoteManifest(transportOK)
         delta == CalculateDelta(localManifest, remoteManifest)
         o == [NoOp EXCEPT !.name = "Deploy", !.releaseID = releaseID,
                           !.target = releaseID, !.DryRun = dryRun,
                           !.fetchErr = IF hugoOK THEN FetchError(transportOK) ELSE "",
                           !.preCurrent = current,
                           !.preLive = Tree(current),
                           !.preTmp = tmpLink]
     IN IF ~hugoOK
        THEN /\ Return(o, "err", "hugo build failed")
             /\ UNCHANGED public
        ELSE /\ public' = [built EXCEPT ![ManifestName] = WriteManifest(localManifest)]
             /\ IF AfterDelta(dryRun) = "done"
                THEN Return([Called(o, "FetchManifest") EXCEPT !.changed = delta.Changed,
                                                               !.deleted = delta.Deleted],
                            "ok", "")
                ELSE /\ pc' = AfterDelta(dryRun)
                     /\ op' = [Called(o, "FetchManifest") EXCEPT
                                 !.Full = full,
                                 !.changed = delta.Changed,
                                 !.deleted = delta.Deleted,
                                 !.remoteEmpty = (DOMAIN remoteManifest.Files = {}),
                                 !.status = "running"]
  /\ UNCHANGED <<backend, lastBuild, sideVars, targetVars, lastID, activated>>

Deploy(dryRun, full, noBuild, v, missing, hugoOK, transportOK) ==
  DeployWithin(MaxReleases, dryRun, full, noBuild, v, missing, hugoOK, transportOK)

\* An executeDeployment that drops the CreateRelease error (mutation of
\* AfterCreate).
AfterCreateIgnoringError(succeeded) == "upload"

\* Where executeDeployment goes after createReleaseDir returned.
AfterCreate(succeeded) == IF succeeded THEN "upload" ELSE "done"

\* CreateRelease (both backends): hardlink-clone the resolved current release
\* when the current link exists, else make an empty directory.
CreateRelease(ok) ==
  /\ pc = "create"
  /\ LET o == Called(op, "CreateRelease")
         r == op.releaseID
     IN IF ~ok \/ (current # NoRel /\ ~Exists(current))
        THEN /\ IF AfterCreate(FALSE) = "done"
                THEN Return(o, "err", "create release")
                ELSE /\ pc' = AfterCreate(FALSE)
                     /\ op' = o
             /\ UNCHANGED <<releases, inode, mtime, lastID>>
        ELSE /\ SetFS(IF current # NoRel THEN HardlinkCopy(FS, current, r) ELSE Mkdir(FS, r))
             /\ lastID' = r
             /\ pc' = AfterCreate(TRUE)
             /\ op' = o
  /\ UNCHANGED <<backend, lastBuild, sideVars, current, tmpLink, public, activated>>

\* An uploadFiles that looks at the --full flag only (mutation of UploadCall).
UploadCallByFlag(o) ==
  IF o.Full THEN "UploadFull"
  ELSE IF Len(o.changed) > 0 THEN "UploadDelta"
  ELSE "none"

\* An uploadFiles that calls UploadDelta with an empty list too (mutation of
\* UploadCall).
UploadCallDeltaAlways(o) ==
  IF o.Full \/ o.remoteEmpty THEN "UploadFull" ELSE "UploadDelta"

\* uploadFiles: which Deployer call the upload step makes, and with which files.
UploadCall(o) ==
  IF o.Full \/ o.remoteEmpty THEN "UploadFull"
  ELSE IF Len(o.changed) > 0 THEN "UploadDelta"
  ELSE "none"

UploadList(o) ==
  IF UploadCall(o) = "UploadFull" THEN WalkFiles(public)
  ELSE IF UploadCall(o) = "UploadDelta" THEN o.changed
  ELSE <<>>

\* An executeDeployment that drops the upload error (mutation of AfterUpload).
AfterUploadIgnoringError(succeeded) == "validate"

\* Where executeDeployment goes after the upload step returned.
AfterUpload(succeeded) == IF succeeded THEN "validate" ELSE "done"

\* The upload step: UploadFull / UploadDelta of the backend write the files one
\* after the other; a failure after k of them leaves those k written.
UploadWithin(limit, k) ==
  /\ pc = "upload"
  /\ k \in 0..Len(UploadList(op))
  /\ k < Len(UploadList(op)) => k <= limit
  /\ LET files == UploadList(op)
         called == IF UploadCall(op) = "none" THEN op ELSE Called(op, UploadCall(op))
         o == [called EXCEPT !.err = IF k = Len(files) THEN "" ELSE "upload"]
         r == op.releaseID
     IN /\ SetFS(IF backend = "local"
                 THEN LocalCopy(FS, public, r, files, k)
                 ELSE RemoteExtract(FS, public, r, files, k))
        /\ IF AfterUpload(k = Len(files)) = "done"
           THEN Return(o, "err", o.err)
           ELSE /\ pc' = AfterUpload(k = Len(files))
                /\ op' = o
  /\ UNCHANGED <<backend, lastBuild, sideVars, lastID, current, tmpLink, public, activated>>

Upload(k) == UploadWithin(MaxFault, k)

\* Activate, validation: the first required file missing from the release
\* fails the call, after the release directory has been removed.
\* A validation that finds nothing missing (mutation of MissingRequired).
MissingRequiredNone(r) == {}

MissingRequired(r) ==
  {i \in 1..Len(requiredFiles) : Content(r, requiredFiles[i]) = NoFile}

ActivateValidate ==
  /\ pc = "validate"
  /\ LET o == Called(op, "Activate")
     IN IF MissingRequired(op.target) # {}
        THEN /\ SetFS(RemoveAll(FS, op.target))
             /\ Return(o, "err", "validation failed")
        ELSE /\ pc' = IF backend = "local" THEN "rmtmp" ELSE "symlink"
             /\ op' = o
             /\ UNCHANGED <<releases, inode, mtime>>
  /\ UNCHANGED <<backend, lastBuild, sideVars, lastID, current, tmpLink, public, activated>>

\* An Activate that removes the live link instead of the stale temporary one
\* (mutation of ActivateRemoveTmp).
ActivateRemoveCurrent ==
  /\ pc = "rmtmp"
  /\ current' = NoRel
  /\ pc' = "symlink"
  /\ UNCHANGED <<backend, lastBuild, sideVars, releases, inode, mtime, lastID, tmpLink, public, op, activated>>

\* An Activate that leaves a temporary link it finds where it is (mutation
\* of ActivateRemoveTmp).
ActivateKeepTmp ==
  /\ pc = "rmtmp"
  /\ pc' = "symlink"
  /\ UNCHANGED <<backend, lastBuild, sideVars, releases, inode, mtime, lastID, current, tmpLink, public, op, activated>>

\* LocalDeployer.Activate: os.Remove(tmpLink).
ActivateRemoveTmp ==
  /\ pc = "rmtmp"
  /\ tmpLink' = NoRel
  /\ pc' = "symlink"
  /\ UNCHANGED <<backend, lastBuild, sideVars, releases, inode, mtime, lastID, current, public, op, activated>>

\* os.Symlink fails when tmpLink exists (EEXIST); ln -sfn replaces the
\* link it finds. `ok` is FALSE when the call fails for another reason.
SymlinkCreated(ok) == ok /\ (backend = "local" => tmpLink = NoRel)

\* os.Symlink(relPath, tmpLink) / ln -sfn releaseDir current.new.
ActivateSymlink(ok) ==
  /\ pc = "symlink"
  /\ IF SymlinkCreated(ok)
     THEN /\ tmpLink' = op.target
          /\ pc' = "rename"
          /\ UNCHANGED op
     ELSE /\ Return(op, "err", "create symlink")
          /\ UNCHANGED tmpLink
  /\ UNCHANGED <<backend, lastBuild, sideVars, releases, inode, mtime, lastID, current, public, activated>>

\* Where the caller of the symlink swap continues after the rename.
AfterRename(o) == IF o.name = "Deploy" THEN "cleanup" ELSE "done"

\* os.Rename(tmpLink, currentLink) / mv -Tf current.new current: one rename.
\* When it fails LocalDeployer removes the temporary link.
ActivateRename(ok) ==
  /\ pc = "rename"
  /\ IF ok
     THEN /\ current' = tmpLink
          /\ tmpLink' = NoRel
          /\ activated' = activated \cup {tmpLink}
          /\ IF AfterRename(op) = "done"
             THEN Return(op, "ok", "")
             ELSE /\ pc' = AfterRename(op)
                  /\ UNCHANGED op
     ELSE /\ Return(op, "err", "activate release")
          /\ tmpLink' = IF backend = "local" THEN NoRel ELSE tmpLink
          /\ UNCHANGED <<current, activated>>
  /\ UNCHANGED <<backend, lastBuild, sideVars, releases, inode, mtime, lastID, public>>

\* Cleanup(keepN) of the backend; l is what ListReleases returned.
CleanupSet(l, keepN) ==
  IF backend = "local" THEN LocalCleanupSet(l, keepN) ELSE RemoteCleanupSet(keepN)

\* A warning printed by cleanupOldReleases / runHealthCheck.
Warned(o, w) == [o EXCEPT !.warnings = o.warnings \cup {w}]

\* An executeDeployment that returns the Cleanup error (mutation of AfterCleanup).
AfterCleanupFatal(ok) == IF ok THEN "health" ELSE "done"

\* Where executeDeployment goes after cleanupOldReleases: on, whatever Cleanup returned.
AfterCleanup(ok) == "health"

\* cleanupOldReleases: env.KeepN is read here; a Cleanup error is only a warning.
DeployCleanup(keepN, ok) ==
  /\ pc = "cleanup"
  /\ \E l \in ListReleases :
       SetFS(IF ok THEN RemoveEach(FS, CleanupSet(l, keepN)) ELSE FS)
  /\ LET called == [Called(op, "Cleanup") EXCEPT !.KeepN = keepN]
         o == IF ok THEN called ELSE Warned(called, "cleanup failed")
     IN IF AfterCleanup(ok) = "done"
        THEN Return(o, "err", "cleanup")
        ELSE /\ pc' = AfterCleanup(ok)
             /\ op' = o
  /\ UNCHANGED <<backend, lastBuild, sideVars, lastID, current, tmpLink, public, activated>>

\* HealthCheck: healthz.json of the live release must contain the release ID
\* (read through current locally, fetched from the web server remotely, which
\* may not be serving it). runHealthCheck only warns.
HealthCheckOK(releaseID, served) ==
  /\ backend = "remote" => served
  /\ Content(current, "healthz.json") = <<releaseID>>

DeployHealthCheck(served) ==
  /\ pc = "health"
  /\ backend = "local" => served
  /\ Return(IF HealthCheckOK(op.releaseID, served)
            THEN Called(op, "HealthCheck")
            ELSE Warned(Called(op, "HealthCheck"), "health check failed"),
            "ok", "")
  /\ UNCHANGED <<backend, lastBuild, sideVars, targetVars, lastID, public, activated>>

\* Rollback(env, releaseID): the orchestrator picks the previous release when
\* none is named, the Deployer verifies the release directory exists and
\* swaps the link (LocalDeployer through Activate, RemoteDeployer in its script).
RollbackSwap == IF backend = "local" THEN "validate" ELSE "symlink"

\* A Rollback that does not look for the release directory (mutation of
\* ReleaseFound).
ReleaseAssumed(targetID) == TRUE

\* Rollback, "verify release exists": os.Stat(releaseDir) / [ -d releaseDir ].
ReleaseFound(targetID) == Exists(targetID)

Rollback(releaseID) ==
  /\ pc = "idle"
  /\ \E l \in ListReleases :
     LET targetID == IF releaseID = NoRel THEN findPreviousRelease(l) ELSE releaseID
         o == [NoOp EXCEPT !.name = "Rollback", !.releaseID = releaseID,
                           !.target = targetID, !.preCurrent = current,
                           !.preLive = Tree(current), !.preTmp = tmpLink]
     IN IF targetID = NoRel
        THEN Return(o, "err", "no previous release found")
        ELSE IF ~ReleaseFound(targetID)
        THEN Return(Called(o, "Rollback"), "err", "release not found")
        ELSE /\ pc' = RollbackSwap
             /\ op' = [Called(o, "Rollback") EXCEPT !.status = "running"]
  /\ UNCHANGED <<backend, lastBuild, sideVars, targetVars, lastID, public, activated>>

\* Deployer.Cleanup(keepN) called on its own.
Cleanup(keepN, ok) ==
  /\ pc = "idle"
  /\ \E l \in ListReleases :
       SetFS(IF ok THEN RemoveEach(FS, CleanupSet(l, keepN)) ELSE FS)
  /\ Return([Called(NoOp, "Cleanup") EXCEPT !.name = "Cleanup",
                                            !.preCurrent = current,
                                            !.preLive = Tree(current)],
            IF ok THEN "ok" ELSE "err", IF ok THEN "" ELSE "cleanup")
  /\ UNCHANGED <<backend, lastBuild, sideVars, lastID, current, tmpLink, public, activated>>

\* The process is killed between two steps of an operation.
Kill ==
  /\ pc \notin {"idle", "done"}
  /\ Return(op, "killed", "killed")
  /\ UNCHANGED <<backend, lastBuild, sideVars, targetVars, lastID, public, activated>>

\* The command has reported the outcome of its operation and exits. The
\* history variable lastBuild follows: a successful deploy is remembered,
\* a dry run changes nothing, anything else ends the run of successful deploys.
Exit ==
  /\ pc = "done"
  /\ pc' = "idle"
  /\ op' = NoOp
  /\ lastBuild' = IF op.name = "Deploy" /\ op.status = "ok" /\ lastBuild # Disturbed
                  THEN (IF op.DryRun THEN lastBuild ELSE Deployed(public))
                  ELSE Disturbed
  /\ UNCHANGED <<backend, sideVars, targetVars, lastID, public, activated>>

Next ==
  \/ \E dryRun, full, noBuild, hugoOK, transportOK \in BOOLEAN :
       \E v \in {0, 1}, missing \in {"", "sw.js"} :
         Deploy(dryRun, full, noBuild, v, missing, hugoOK, transportOK)
  \/ \E ok \in BOOLEAN : CreateRelease(ok)
  \/ \E k \in 0..Len(PathOrder) : Upload(k)
  \/ ActivateValidate
  \/ ActivateRemoveTmp
  \/ \E ok \in BOOLEAN : ActivateSymlink(ok)
  \/ \E ok \in BOOLEAN : ActivateRename(ok)
  \/ \E keepN \in 0..MaxKeep, ok \in BOOLEAN : DeployCleanup(keepN, ok)
  \/ \E served \in BOOLEAN : DeployHealthCheck(served)
  \/ \E releaseID \in 0..MaxReleases : Rollback(releaseID)
  \/ \E keepN \in 0..MaxKeep, ok \in BOOLEAN : Cleanup(keepN, ok)
  \/ Kill
  \/ Exit

Spec == Init /\ [][Next]_vars

\* ------------------------------------------------------- interrupted uploads
\* Deploys and rollbacks on one target where the only thing that can go wrong
\* is the upload, which may stop after up to MaxPartial files.
PartialNext ==
  \/ \E full, noBuild \in BOOLEAN, v \in {0, 1}, missing \in {"", "sw.js"} :
       Deploy(FALSE, full, noBuild, v, missing, TRUE, TRUE)
  \/ CreateRelease(TRUE)
  \/ \E k \in 0..Len(PathOrder) : UploadWithin(MaxPartial, k)
  \/ ActivateValidate
  \/ ActivateRemoveTmp
  \/ ActivateSymlink(TRUE)
  \/ ActivateRename(TRUE)
  \/ DeployCleanup(MaxKeep, TRUE)
  \/ DeployHealthCheck(TRUE)
  \/ \E releaseID \in 0..MaxReleases : Rollback(releaseID)
  \/ Exit

SpecPartial == Init /\ [][PartialNext]_vars

\* ---------------------------------------------------------------- deploys alone
\* A run of deploys on one target, nothing else and nothing failing: each
\* builds the site anew (a.txt in one of two versions) or takes public/ as
\* it is, with or without --full, and keeps every release.
Versions == {1, 2}
DeploysNext ==
  \/ \E full, noBuild \in BOOLEAN, v \in Versions :
       DeployWithin(MaxHistory, FALSE, full, noBuild, IF noBuild THEN 0 ELSE v, "", TRUE, TRUE)
  \/ CreateRelease(TRUE)
  \/ Upload(Len(UploadList(op)))
  \/ ActivateValidate
  \/ ActivateRemoveTmp
  \/ ActivateSymlink(TRUE)
  \/ ActivateRename(TRUE)
  \/ DeployCleanup(MaxHistory, TRUE)
  \/ DeployHealthCheck(TRUE)
  \/ Exit

SpecDeploys == Init /\ [][DeploysNext]_vars

\* ---------------------------------------------------------------- CalculateDelta on its own
\* The state of the deployment while a manifest function is followed on its
\* own: nothing has been deployed and nothing is.
deployVars == <<backend, releases, inode, mtime, lastID, current, tmpLink, public, pc, op,
                activated, lastBuild>>
NoDeployment == DeployInit /\ backend = "local"

\* The manifests handed to CalculateDelta: any set of entries over three
\* paths, with digests 1..MaxDigest and sizes 1..MaxSize.
DeltaPaths == {"a.txt", "healthz.json", "index.html"}
FileInfos == [SHA256 : 1..MaxDigest, Size : 1..MaxSize]
DeltaManifests ==
  UNION {[ReleaseID : {1}, Files : [S -> FileInfos]] : S \in SUBSET DeltaPaths}

NoResult == [Changed |-> <<>>, Unchanged |-> <<>>, Deleted |-> <<>>]

DeltaInit ==
  /\ NoDeployment
  /\ genCall = NoGen
  /\ ioCall = NoIO
  /\ cfgCall = NoCfg
  /\ actCall = NoAct
  /\ deltaCall \in [phase : {"called"}, local : DeltaManifests, remote : DeltaManifests,
                     result : {NoResult}]

\* One call of CalculateDelta(local, remote); the range loops visit the two
\* maps in the orders the runtime happens to choose.
CalculateDeltaCall(localOrder, remoteOrder) ==
  /\ deltaCall.phase = "called"
  /\ localOrder \in rangeOrders(deltaCall.local.Files)
  /\ remoteOrder \in rangeOrders(deltaCall.remote.Files)
  /\ deltaCall' = [deltaCall EXCEPT
                     !.phase = "returned",
                     !.result = CalculateDeltaIn(deltaCall.local, deltaCall.remote,
                                                 localOrder, remoteOrder)]
  /\ UNCHANGED <<deployVars, genCall, ioCall, cfgCall, actCall>>

DeltaNext ==
  \E localOrder \in rangeOrders(deltaCall.local.Files),
     remoteOrder \in rangeOrders(deltaCall.remote.Files) :
    CalculateDeltaCall(localOrder, remoteOrder)

SpecDelta == DeltaInit /\ [][DeltaNext]_vars

\* ---------------------------------------------------------------- GenerateManifestWithWorkers on its own
\* errChan := make(chan error, 1)
errChanCap == 1

WorkerIDs == 1..MaxWorkers
NoErr == ""
NilManifest == [ReleaseID |-> NoRel, Files |-> "nil"]

\* The directories handed to GenerateManifestWithWorkers: any subset of four
\* files, one of them build-manifest.json, each with a content of its own.
GenPaths == {"a.txt", "build-manifest.json", "healthz.json", "index.html"}
GenDirs ==
  {[p \in PathSet |-> IF p \in S THEN <<PathIndex(p)>> ELSE NoFile] : S \in SUBSET GenPaths}

IdleWorker == [pc |-> "none", relPath |-> "", info |-> <<>>]

\* The call is entered: dir and workers are its arguments; walkFails and
\* failing say what the filesystem will answer (WalkDir failing, the files
\* hashFile cannot read).
GenInit ==
  /\ NoDeployment
  /\ deltaCall = NoDelta
  /\ ioCall = NoIO
  /\ cfgCall = NoCfg
  /\ actCall = NoAct
  /\ \E dir \in GenDirs, workers \in -1..MaxWorkers, walkFails \in BOOLEAN :
       \E failing \in SUBSET {p \in GenPaths : dir[p] # NoFile /\ p # ManifestName} :
         genCall = [phase |-> "collect", dir |-> dir, workers |-> workers,
                    walkFails |-> walkFails, failing |-> failing,
                    files |-> <<>>, pushed |-> 0, spawned |-> 0, wg |-> 0,
                    fileChan |-> <<>>, closed |-> FALSE, errChan |-> <<>>,
                    mu |-> 0, worker |-> [w \in WorkerIDs |-> IdleWorker],
                    dequeuedBy |-> [p \in GenPaths |-> <<>>],
                    hashedBy |-> [p \in GenPaths |-> <<>>],
                    manifest |-> EmptyManifest,
                    ret |-> [manifest |-> NilManifest, err |-> NoErr]]

\* collectFiles, and the return on its error.
GenCollect ==
  /\ genCall.phase = "collect"
  /\ genCall' = IF genCall.walkFails
                THEN [genCall EXCEPT !.phase = "returned",
                                     !.ret = [manifest |-> NilManifest, err |-> "walk"]]
                ELSE [genCall EXCEPT !.phase = "spawn",
                                     !.files = SortStrings(collectFiles(genCall.dir)),
                                     !.manifest = [ReleaseID |-> 1, Files |-> <<>>]]
  /\ UNCHANGED <<deployVars, deltaCall, ioCall, cfgCall, actCall>>

\* for i := 0; i < workers; i++ { wg.Add(1); go hashWorker(...) }
GenSpawn ==
  /\ genCall.phase = "spawn"
  /\ genCall' = IF genCall.spawned < genCall.workers
                THEN [genCall EXCEPT !.spawned = @ + 1, !.wg = @ + 1,
                                     !.worker[genCall.spawned + 1].pc = "range"]
                ELSE [genCall EXCEPT !.phase = "push"]
  /\ UNCHANGED <<deployVars, deltaCall, ioCall, cfgCall, actCall>>

\* for _, f := range files { fileChan <- f }: the send blocks while the
\* buffer of len(files) slots is full.
GenPush ==
  /\ genCall.phase = "push"
  /\ genCall.pushed < Len(genCall.files)
  /\ Len(genCall.fileChan) < Len(genCall.files)
  /\ genCall' = [genCall EXCEPT !.pushed = @ + 1,
                                !.fileChan = Append(@, genCall.files[genCall.pushed + 1])]
  /\ UNCHANGED <<deployVars, deltaCall, ioCall, cfgCall, actCall>>

\* close(fileChan)
GenClose ==
  /\ genCall.phase = "push"
  /\ genCall.pushed = Len(genCall.files)
  /\ genCall' = [genCall EXCEPT !.closed = TRUE, !.phase = "wait"]
  /\ UNCHANGED <<deployVars, deltaCall, ioCall, cfgCall, actCall>>

\* wg.Wait()
GenWait ==
  /\ genCall.phase = "wait"
  /\ genCall.wg = 0
  /\ genCall' = [genCall EXCEPT !.phase = "select"]
  /\ UNCHANGED <<deployVars, deltaCall, ioCall, cfgCall, actCall>>

\* select { case err := <-errChan: return nil, err; default: }; return manifest, nil
GenReturn ==
  /\ genCall.phase = "select"
  /\ genCall' = IF genCall.errChan # <<>>
                THEN [genCall EXCEPT !.phase = "returned",
                                     !.errChan = Tail(@),
                                     !.ret = [manifest |-> NilManifest,
                                              err |-> Head(genCall.errChan)]]
                ELSE [genCall EXCEPT !.phase = "returned",
                                     !.ret = [manifest |-> genCall.manifest, err |-> NoErr]]
  /\ UNCHANGED <<deployVars, deltaCall, ioCall, cfgCall, actCall>>

\* hashWorker, for relPath := range fileChan: take the next path, or leave
\* the loop once the channel is closed and drained (defer wg.Done()).
WorkerRange(w) ==
  /\ genCall.worker[w].pc = "range"
  /\ genCall.fileChan # <<>> \/ genCall.closed
  /\ genCall' = IF genCall.fileChan # <<>>
                THEN [genCall EXCEPT !.fileChan = Tail(@),
                                     !.dequeuedBy[Head(genCall.fileChan)] = Append(@, w),
                                     !.worker[w].pc = "hash",
                                     !.worker[w].relPath = Head(genCall.fileChan)]
                ELSE [genCall EXCEPT !.wg = @ - 1, !.worker[w].pc = "exit"]
  /\ UNCHANGED <<deployVars, deltaCall, ioCall, cfgCall, actCall>>

\* info, err := hashFile(fullPath)
WorkerHash(w) ==
  /\ genCall.worker[w].pc = "hash"
  /\ genCall' = IF genCall.worker[w].relPath \in genCall.failing
                THEN [genCall EXCEPT !.worker[w].pc = "senderr",
                                     !.hashedBy[genCall.worker[w].relPath] = Append(@, w)]
                ELSE [genCall EXCEPT
                        !.worker[w].pc = "lock",
                        !.hashedBy[genCall.worker[w].relPath] = Append(@, w),
                        !.worker[w].info = hashFile(genCall.dir[genCall.worker[w].relPath])]
  /\ UNCHANGED <<deployVars, deltaCall, ioCall, cfgCall, actCall>>

\* A worker that drops every error (mutation of trySend).
trySendDropped(ch, err) == ch

\* select { case errChan <- err: default: }: the error is buffered when
\* there is room and dropped otherwise.
trySend(ch, err) == IF Len(ch) < errChanCap THEN Append(ch, err) ELSE ch

\* The error of hashFile for a path.
HashError(relPath) == relPath

\* A send without the default case: the worker waits for room in errChan
\* (mutation of errSendReady).
errSendBlocking(ch) == Len(ch) < errChanCap

\* The select has a default case: it never waits, whatever errChan holds.
errSendReady(ch) == TRUE

WorkerSendErr(w) ==
  /\ genCall.worker[w].pc = "senderr"
  /\ errSendReady(genCall.errChan)
  /\ genCall' = [genCall EXCEPT
                   !.errChan = trySend(@, HashError(genCall.worker[w].relPath)),
                   !.worker[w].pc = "range",
                   !.worker[w].relPath = ""]
  /\ UNCHANGED <<deployVars, deltaCall, ioCall, cfgCall, actCall>>

\* A mutex that never makes a caller wait (mutation of lockFree).
lockAlwaysFree(mu) == TRUE

\* sync.Mutex: Lock returns only when no goroutine holds the mutex.
lockFree(mu) == mu = 0

\* mu.Lock()
WorkerLock(w) ==
  /\ genCall.worker[w].pc = "lock"
  /\ lockFree(genCall.mu)
  /\ genCall' = [genCall EXCEPT !.mu = w, !.worker[w].pc = "insert"]
  /\ UNCHANGED <<deployVars, deltaCall, ioCall, cfgCall, actCall>>

\* manifest.Files[relPath] = info
MapInsert(files, relPath, info) ==
  [p \in DOMAIN files \cup {relPath} |-> IF p = relPath THEN info ELSE files[p]]

WorkerInsert(w) ==
  /\ genCall.worker[w].pc = "insert"
  /\ genCall' = [genCall EXCEPT
                   !.manifest.Files = MapInsert(@, genCall.worker[w].relPath,
                                                genCall.worker[w].info),
                   !.worker[w].pc = "unlock"]
  /\ UNCHANGED <<deployVars, deltaCall, ioCall, cfgCall, actCall>>

\* mu.Unlock(), and back to the head of the loop.
WorkerUnlock(w) ==
  /\ genCall.worker[w].pc = "unlock"
  /\ genCall' = [genCall EXCEPT !.mu = 0,
                                !.worker[w] = [IdleWorker EXCEPT !.pc = "range"]]
  /\ UNCHANGED <<deployVars, deltaCall, ioCall, cfgCall, actCall>>

GenNext ==
  \/ GenCollect
  \/ GenSpawn
  \/ GenPush
  \/ GenClose
  \/ GenWait
  \/ GenReturn
  \/ \E w \in WorkerIDs : WorkerRange(w)
  \/ \E w \in WorkerIDs : WorkerHash(w)
  \/ \E w \in WorkerIDs : WorkerSendErr(w)
  \/ \E w \in WorkerIDs : WorkerLock(w)
  \/ \E w \in WorkerIDs : WorkerInsert(w)
  \/ \E w \in WorkerIDs : WorkerUnlock(w)

SpecHash == GenInit /\ [][GenNext]_vars

\* The goroutine of the caller and the goroutine of worker w.
GenMain == GenCollect \/ GenSpawn \/ GenPush \/ GenClose \/ GenWait \/ GenReturn
Worker(w) ==
  \/ WorkerRange(w) \/ WorkerHash(w) \/ WorkerSendErr(w)
  \/ WorkerLock(w) \/ WorkerInsert(w) \/ WorkerUnlock(w)

\* The Go scheduler runs every goroutine that stays runnable: weak fairness
\* for the caller and for each worker.
SpecHashFair ==
  /\ GenInit
  /\ [][GenNext]_vars
  /\ WF_vars(GenMain)
  /\ \A w \in WorkerIDs : WF_vars(Worker(w))

\* ---------------------------------------------------------------- WriteManifest / ReadManifest on their own
\* Go strings are byte strings. The keys of Files, in byte order: a plain
\* name, a name with a character the encoder escapes, a name with a byte
\* that is not UTF-8 (0xE9), and a name holding the rune U+FFFD.
JSONKeys == <<"a.txt", "b<c.txt", "caf[E9].txt", "caf[U+FFFD].txt">>
JSONReleaseIDs == {"", "20250101-120000", "rel[E9]"}
JSONInfos == {[SHA256 |-> "", Size |-> 0], [SHA256 |-> "ab12", Size |-> 12]}

\* encoding/json, string to JSON text: <, > and & are written as \u escapes
\* and a byte that is not valid UTF-8 as the escape of U+FFFD.
encodeString(str) ==
  CASE str = "b<c.txt" -> "b\\u003cc.txt"
    [] str = "caf[E9].txt" -> "caf\\ufffd.txt"
    [] str = "rel[E9]" -> "rel\\ufffd"
    [] OTHER -> str

\* encoding/json, JSON text to string: escapes are resolved.
decodeString(text) ==
  CASE text = "b\\u003cc.txt" -> "b<c.txt"
    [] text = "caf\\ufffd.txt" -> "caf[U+FFFD].txt"
    [] text = "rel\\ufffd" -> "rel[U+FFFD]"
    [] OTHER -> text

\* An int64 as decimal digits, and back.
RECURSIVE formatInt(_)
formatInt(n) == IF n < 10 THEN <<n>> ELSE Append(formatInt(n \div 10), n % 10)
RECURSIVE parseInt(_)
parseInt(digits) ==
  IF Len(digits) = 1 THEN digits[1]
  ELSE 10 * parseInt(SubSeq(digits, 1, Len(digits) - 1)) + digits[Len(digits)]

\* time.Time: an instant (year, nanoseconds), a location and possibly a
\* monotonic clock reading. tz is the offset of the machine's local zone.
JSONTimes == [year : {2025, 10000}, nsec : {0, 5}, loc : {"UTC", "Local", "Zone"},
              mono : BOOLEAN]
ZoneOffset(loc, tz) ==
  CASE loc = "UTC" -> 0
    [] loc = "Local" -> tz
    [] OTHER -> -300

\* Time.MarshalJSON: RFC 3339 with nanoseconds, the zone written as Z when
\* its offset is zero; the year must be in 0..9999.
TimeEncodable(t) == t.year \in 0..9999
encodeTime(t, tz) ==
  [year |-> t.year, nsec |-> t.nsec,
   zulu |-> (ZoneOffset(t.loc, tz) = 0), offset |-> ZoneOffset(t.loc, tz)]

\* Time.UnmarshalJSON: "Z" gives UTC, the offset of the local zone gives
\* Local, another offset a fixed zone; there is no monotonic reading.
decodeTime(text, tz) ==
  [year |-> text.year, nsec |-> text.nsec,
   loc |-> IF text.zulu THEN "UTC"
           ELSE IF text.offset = tz THEN "Local" ELSE "Fixed",
   mono |-> FALSE]

\* A Go map: nil, or a set of entries.
NilMap == [isNil |-> TRUE, entries |-> <<>>]
MakeMap(entries) == [isNil |-> FALSE, entries |-> entries]

\* The members of a JSON object for a map, in the order of the sorted keys.
RECURSIVE encodeMembers(_, _)
encodeMembers(files, i) ==
  IF i > Len(JSONKeys) THEN <<>>
  ELSE (IF JSONKeys[i] \in DOMAIN files
        THEN <<[key |-> encodeString(JSONKeys[i]),
                sha256 |-> encodeString(files[JSONKeys[i]].SHA256),
                size |-> formatInt(files[JSONKeys[i]].Size)]>>
        ELSE <<>>) \o encodeMembers(files, i + 1)

\* The map read from the first n members of an object: a later member
\* with the same key replaces an earlier one.
RECURSIVE decodeMembers(_, _)
decodeMembers(members, n) ==
  IF n = 0 THEN <<>>
  ELSE MapInsert(decodeMembers(members, n - 1), decodeString(members[n].key),
                 [SHA256 |-> decodeString(members[n].sha256),
                  Size |-> parseInt(members[n].size)])

\* enc.Encode(m): "files" is null for a nil map, "releaseId" is left out
\* when empty (omitempty), "buildTime" is always written.
encodeManifest(m, tz) ==
  [files |-> [null |-> m.Files.isNil,
              members |-> IF m.Files.isNil THEN <<>> ELSE encodeMembers(m.Files.entries, 1)],
   releaseId |-> IF m.ReleaseID = "" THEN <<>> ELSE <<encodeString(m.ReleaseID)>>,
   buildTime |-> encodeTime(m.BuildTime, tz)]

\* json.Unmarshal(data, &m), m being the zero Manifest.
decodeManifest(doc, tz) ==
  [Files |-> IF doc.files.null THEN NilMap
             ELSE MakeMap(decodeMembers(doc.files.members, Len(doc.files.members))),
   ReleaseID |-> IF doc.releaseId = <<>> THEN "" ELSE decodeString(doc.releaseId[1]),
   BuildTime |-> decodeTime(doc.buildTime, tz)]

JSONManifests ==
  [Files : {NilMap} \cup {MakeMap(f) : f \in UNION {[S -> JSONInfos] : S \in SUBSET SeqToSet(JSONKeys)}},
   ReleaseID : JSONReleaseIDs,
   BuildTime : JSONTimes]

\* The zero Manifest, and the states of the file at path: absent, created
\* and still empty, holding a document.
ZeroManifest ==
  [Files |-> NilMap, ReleaseID |-> "",
   BuildTime |-> [year |-> 1, nsec |-> 0, loc |-> "UTC", mono |-> FALSE]]
NoDocument == encodeManifest(ZeroManifest, 0)
NoSuchFile == [state |-> "absent", doc |-> NoDocument]
EmptyFile == [state |-> "empty", doc |-> NoDocument]
FileWith(doc) == [state |-> "written", doc |-> doc]

IOInit ==
  /\ NoDeployment
  /\ deltaCall = NoDelta
  /\ genCall = NoGen
  /\ cfgCall = NoCfg
  /\ actCall = NoAct
  /\ ioCall \in [phase : {"called"}, m : JSONManifests, tz : {0, 60},
                  file : {NoSuchFile}, werr : {""}, rerr : {""},
                  result : {ZeroManifest}]

\* WriteManifest(m, path): os.Create, then the encoder writes the document
\* once the whole of it is encoded.
WriteManifestCall(createOK) ==
  /\ ioCall.phase = "called"
  /\ ioCall' = IF ~createOK
               THEN [ioCall EXCEPT !.phase = "written", !.werr = "create"]
               ELSE IF ~TimeEncodable(ioCall.m.BuildTime)
               THEN [ioCall EXCEPT !.phase = "written", !.werr = "encode",
                                   !.file = EmptyFile]
               ELSE [ioCall EXCEPT !.phase = "written",
                                   !.file = FileWith(encodeManifest(ioCall.m, ioCall.tz))]
  /\ UNCHANGED <<deployVars, deltaCall, genCall, cfgCall, actCall>>

\* ReadManifest(path) on the file WriteManifest left.
ReadManifestCall(readOK) ==
  /\ ioCall.phase = "written"
  /\ ioCall' = IF ~readOK \/ ioCall.file = NoSuchFile
               THEN [ioCall EXCEPT !.phase = "read", !.rerr = "read file"]
               ELSE IF ioCall.file = EmptyFile
               THEN [ioCall EXCEPT !.phase = "read", !.rerr = "unmarshal"]
               ELSE [ioCall EXCEPT !.phase = "read",
                                   !.result = decodeManifest(ioCall.file.doc, ioCall.tz)]
  /\ UNCHANGED <<deployVars, deltaCall, genCall, cfgCall, actCall>>

IONext ==
  \/ \E createOK \in BOOLEAN : WriteManifestCall(createOK)
  \/ \E readOK \in BOOLEAN : ReadManifestCall(readOK)

SpecIO == IOInit /\ [][IONext]_vars

\* ------------------------------------------- the deploy command's configuration
\* What the file system holds at a configuration path: nothing, a file that
\* cannot be read, a file that is not TOML, or a file with these environments.
ConfigPaths == {"deploy.toml", "site.toml"}
EnvNames == {"local", "prod", "staging"}
Commands == {"deploy", "list", "rollback", "status"}
Env(name, keepN) == [Name |-> name, KeepN |-> keepN]
NoEnvironment == Env("", 0)
ConfigLists ==
  { <<>>,
    <<Env("local", 3)>>,
    <<Env("prod", 5)>>,
    <<Env("local", 3), Env("prod", 5)>>,
    <<Env("staging", 2)>>,
    <<Env("local", 1), Env("local", 3)>> }
ConfigFiles ==
  {[state |-> "absent", envs |-> <<>>],
   [state |-> "denied", envs |-> <<>>],
   [state |-> "malformed", envs |-> <<>>]}
    \cup {[state |-> "toml", envs |-> l] : l \in ConfigLists}

\* The environments of the example configuration and of the earlier
\* DefaultEnvironments(): local (keepN 3) and prod (keepN 5).
DefaultEnvironments == <<Env("local", 3), Env("prod", 5)>>

NilConfig == [nil |-> TRUE, Environments |-> <<>>]
defaultConfigPath(configPath) ==
  IF configPath = "" THEN "deploy.toml" ELSE configPath

\* parseConfigFile: the decoded configuration, or the decoder's error.
parseConfigFile(file) ==
  IF file.state = "malformed"
  THEN [config |-> NilConfig, err |-> "toml"]
  ELSE [config |-> [nil |-> FALSE, Environments |-> file.envs], err |-> ""]

\* LoadConfig: an error of os.ReadFile, a missing file included, is returned.
LoadConfig(files, configPath) ==
  LET file == files[defaultConfigPath(configPath)] IN
    IF file.state = "absent" THEN [config |-> NilConfig, err |-> "not exist"]
    ELSE IF file.state = "denied" THEN [config |-> NilConfig, err |-> "permission"]
    ELSE parseConfigFile(file)

\* Config.GetEnvironment: the first environment of that name.
GetEnvironment(c, name) ==
  LET hits == {i \in 1..Len(c.Environments) : c.Environments[i].Name = name} IN
    IF hits = {} THEN [env |-> NoEnvironment, ok |-> FALSE]
    ELSE [env |-> c.Environments[CHOOSE i \in hits : \A j \in hits : i <= j],
          ok |-> TRUE]

CfgInit ==
  /\ NoDeployment
  /\ deltaCall = NoDelta
  /\ genCall = NoGen
  /\ ioCall = NoIO
  /\ actCall = NoAct
  /\ \E files \in [ConfigPaths -> ConfigFiles], configPath \in ConfigPaths \cup {""},
        envName \in EnvNames, command \in Commands :
       cfgCall = [phase |-> "start", files |-> files, configPath |-> configPath,
                  envName |-> envName, command |-> command,
                  config |-> NilConfig, err |-> "", env |-> NoEnvironment,
                  exit |-> 0]

\* loadDeployEnv, first statement: config, err := deploy.LoadConfig(configPath).
LoadConfigCall ==
  /\ cfgCall.phase = "start"
  /\ LET r == LoadConfig(cfgCall.files, cfgCall.configPath) IN
       cfgCall' = [cfgCall EXCEPT !.phase = "loaded", !.config = r.config, !.err = r.err]
  /\ UNCHANGED <<deployVars, deltaCall, genCall, ioCall, actCall>>

\* loadDeployEnv: a LoadConfig error prints the example and exits with 1.
LoadErrorExit ==
  /\ cfgCall.phase = "loaded"
  /\ cfgCall.err # ""
  /\ cfgCall' = [cfgCall EXCEPT !.phase = "exited", !.exit = 1]
  /\ UNCHANGED <<deployVars, deltaCall, genCall, ioCall, actCall>>

\* loadDeployEnv: the environment is looked up; an unknown one exits with 1.
GetEnvironmentCall ==
  /\ cfgCall.phase = "loaded"
  /\ cfgCall.err = ""
  /\ LET r == GetEnvironment(cfgCall.config, cfgCall.envName) IN
       cfgCall' = IF r.ok
                  THEN [cfgCall EXCEPT !.phase = "env", !.env = r.env]
                  ELSE [cfgCall EXCEPT !.phase = "exited", !.exit = 1]
  /\ UNCHANGED <<deployVars, deltaCall, genCall, ioCall, actCall>>

\* Run: the command's handler is called with the environment found.
RunDeployCommand ==
  /\ cfgCall.phase = "env"
  /\ cfgCall' = [cfgCall EXCEPT !.phase = "command"]
  /\ UNCHANGED <<deployVars, deltaCall, genCall, ioCall, actCall>>

CfgNext ==
  \/ LoadConfigCall
  \/ LoadErrorExit
  \/ GetEnvironmentCall
  \/ RunDeployCommand

SpecConfig == CfgInit /\ [][CfgNext]_vars

\* ------------------------------------------------- two concurrent Activate calls
\* Two callers of Deployer.Activate share one target.  Caller c activates
\* release c; a third release stands for whatever was live before.  Each call
\* advances one file-system operation at a time: os.Stat ... os.Remove,
\* os.Symlink, os.Rename for LocalDeployer, and the commands of the ssh script
\* (ln -sfn, mv -Tf) for RemoteDeployer.  `ln -sfn` replaces an existing
\* current.new; os.Symlink fails on one.

Callers == {1, 2}
ActReleases == Callers \cup {3}

ActInit ==
  /\ NoDeployment
  /\ deltaCall = NoDelta
  /\ genCall = NoGen
  /\ ioCall = NoIO
  /\ cfgCall = NoCfg
  /\ \E deployer \in Backends, valid \in [Callers -> BOOLEAN],
        cur \in ActReleases \cup {NoRel}, tmp \in {NoRel, 3} :
       actCall = [phase |-> "run", deployer |-> deployer, valid |-> valid,
                  dirs |-> ActReleases, current |-> cur, tmp |-> tmp,
                  pc |-> [c \in Callers |-> "validate"],
                  err |-> [c \in Callers |-> NoErr],
                  renames |-> <<>>]

ActStep(c, at) == actCall.phase = "run" /\ actCall.pc[c] = at

ActReturn(a, c, err) == [a EXCEPT !.pc[c] = "returned", !.err[c] = err]

ActFrame == UNCHANGED <<deployVars, deltaCall, genCall, ioCall, cfgCall>>

\* local.go 127-134, remote.go 224-230: the three required files
ActValidate(c) ==
  /\ ActStep(c, "validate")
  /\ actCall' =
       IF actCall.valid[c] /\ c \in actCall.dirs
       THEN [actCall EXCEPT !.pc[c] = IF actCall.deployer = "local" THEN "rmtmp"
                                       ELSE "symlink"]
       ELSE ActReturn([actCall EXCEPT !.dirs = @ \ {c}], c, "validation failed")
  /\ ActFrame

\* local.go 137: os.Remove(tmpLink)
ActRemoveTmp(c) ==
  /\ ActStep(c, "rmtmp")
  /\ actCall' = [actCall EXCEPT !.tmp = NoRel, !.pc[c] = "symlink"]
  /\ ActFrame

\* local.go 145-147: os.Symlink; remote.go 232: ln -sfn
ActSymlink(c) ==
  /\ ActStep(c, "symlink")
  /\ actCall' =
       IF actCall.deployer = "local" /\ actCall.tmp # NoRel
       THEN ActReturn(actCall, c, "create symlink")
       ELSE [actCall EXCEPT !.tmp = c, !.pc[c] = "rename"]
  /\ ActFrame

\* local.go 150: os.Rename; remote.go 233: mv -Tf under set -e.  The rename
\* moves whatever current.new is at that moment.
ActRename(c) ==
  /\ ActStep(c, "rename")
  /\ actCall' =
       IF actCall.tmp = NoRel
       THEN IF actCall.deployer = "local"
            THEN [actCall EXCEPT !.pc[c] = "rmfail"]
            ELSE ActReturn(actCall, c, "activate")
       ELSE ActReturn([actCall EXCEPT !.current = actCall.tmp, !.tmp = NoRel,
                                      !.renames = Append(@, [by |-> c,
                                                             installed |-> actCall.tmp])],
                      c, NoErr)
  /\ ActFrame

\* local.go 151-152: os.Remove(tmpLink) after a failed rename
ActRenameFailed(c) ==
  /\ ActStep(c, "rmfail")
  /\ actCall' = ActReturn([actCall EXCEPT !.tmp = NoRel], c, "activate release")
  /\ ActFrame

ActNext ==
  \/ \E c \in Callers : ActValidate(c)
  \/ \E c \in Callers : ActRemoveTmp(c)
  \/ \E c \in Callers : ActSymlink(c)
  \/ \E c \in Callers : ActRename(c)
  \/ \E c \in Callers : ActRenameFailed(c)

SpecActivate == ActInit /\ [][ActNext]_vars

\* ---------------------------------------------------------------- properties
TreeIn(rels, ino, r) == [p \in PathSet |-> ContentIn(rels, ino, r, p)]

\* The target of `current`, and the files of the live release, when the
\* operation that is running (or starting in this step) was called.
Running == pc \notin {"idle", "done"}
PreCurrent == IF pc = "idle" THEN current ELSE op.preCurrent
PreLive == IF pc = "idle" THEN Tree(current) ELSE op.preLive

\* Errors that are injected filesystem / transport faults of the link swap.
SwapFaults == {"create symlink", "activate release"}

\* This step is a Cleanup(keepN) call, within a Deploy or on its own.
CleanupStep ==
  \/ pc = "cleanup" /\ pc' = "health"
  \/ pc = "idle" /\ pc' = "done" /\ op'.name = "Cleanup"

\* C1: a non-dry-run Deploy that returns an error leaves `current` and every
\* file of the live release as they were when it was called; one that returns
\* success leaves `current` resolving to the new release ID.
C1_DeployAtomic ==
  [][(pc' = "done" /\ op'.name = "Deploy" /\ ~op'.DryRun /\ pc # "idle")
       => /\ op'.status = "err" =>
               /\ current' = PreCurrent
               /\ TreeIn(releases', inode', PreCurrent) = PreLive
          /\ op'.status = "ok" =>
               (current' = op.releaseID /\ releases'[op.releaseID].exists)]_vars

\* A required marker file is missing from release r (stated on the files, not
\* through the Activate loop).
MarkerMissing(r) ==
  \E f \in {"healthz.json", "index.html", "sw.js"} : Content(r, f) = NoFile

\* C2: when a marker file is missing from the candidate release at the time
\* Activate is called, Activate returns an error, the candidate's directory is
\* gone afterwards, and `current` resolves to what it resolved to before.
C2_ActivateValidationFails ==
  [][(pc = "validate" /\ MarkerMissing(op.target) /\ op'.status # "killed")
       => /\ pc' = "done"
          /\ op'.status = "err"
          /\ ~releases'[op.target].exists
          /\ current' = current
          /\ Exists(current) => releases'[current].exists]_vars

C2_Witness ==
  /\ pc = "done"
  /\ op.name = "Deploy"
  /\ op.err = "validation failed"
  /\ Exists(current)
  /\ ExistingReleases = {current}

\* C3: during Activate and Rollback a reader of `current` sees the target it
\* had when the operation was called or the release being activated, never a
\* missing link; only the rename of current.new over current changes it.
InSwap == pc \in {"validate", "rmtmp", "symlink", "rename"}
SwapTarget == IF pc = "idle" THEN op'.target ELSE op.target

C3_AtomicSwap ==
  [][(InSwap \/ op'.name = "Rollback")
       => /\ current' \in {PreCurrent, SwapTarget}
          /\ current # NoRel => current' # NoRel
          /\ Exists(current) => releases'[current].exists
          /\ current' # current =>
               (pc = "rename" /\ current' = tmpLink /\ current' = SwapTarget)]_vars

C3_Witness ==
  /\ pc = "rename"
  /\ tmpLink = op.target
  /\ current = op.preCurrent
  /\ Exists(current)
  /\ current # op.target

\* C4: after CreateRelease has cloned the current release, the upload of a
\* delta leaves every file of the cloned release with the content it had.
C4_UploadKeepsPrevious ==
  [][(pc = "upload" /\ UploadCall(op) = "UploadDelta" /\ Exists(current)
      /\ op'.status # "killed")
       => TreeIn(releases', inode', current) = Tree(current)]_vars

\* C5: the release directory `current` resolves to still exists after
\* Cleanup(keepN), whatever keepN and wherever the current release stands in
\* the newest-first order.
C5_CleanupKeepsCurrent ==
  [][(CleanupStep /\ Exists(current)) => releases'[current].exists]_vars

\* C6: once a release has been activated no later step changes its files, and
\* its directory is removed only by Cleanup and never while it is current.
C6_ActivatedImmutable ==
  [][\A r \in activated : Exists(r) =>
        /\ releases'[r].exists => TreeIn(releases', inode', r) = Tree(r)
        /\ ~releases'[r].exists => (CleanupStep /\ r # current)]_vars

\* The first release of a newest-first listing that is not current.
IsFirstNotCurrent(r, l) ==
  \E i \in 1..Len(l) : l[i].ID = r /\ ~l[i].Current /\ \A j \in 1..(i - 1) : l[j].Current

\* C7: Rollback with an empty release ID makes `current` resolve to the first
\* release of the ListReleases output that is not current; when every listed
\* release is current, or there is none, it fails with "no previous release"
\* and leaves `current` as it was.
C7_RollbackPrevious ==
  [][/\ (pc = "idle" /\ op'.name = "Rollback" /\ op'.releaseID = NoRel /\ pc' # "done")
          => \E l \in ListReleases : IsFirstNotCurrent(op'.target, l)
     /\ (pc = "idle" /\ op'.name = "Rollback" /\ op'.releaseID = NoRel
         /\ ExistingReleases \subseteq {current})
          => (op'.err = "no previous release found" /\ current' = current)
     /\ (Running /\ pc' = "done" /\ op.name = "Rollback" /\ op.releaseID = NoRel
         /\ op'.status # "killed" /\ op'.err \notin SwapFaults)
          => (op'.status = "ok" /\ current' = op.target)]_vars

\* C8: Rollback to a release whose directory exists only swaps the link: it
\* succeeds and makes that release current also when a marker file is missing
\* from it, and it never deletes the release directory.
C8_RollbackNoValidation ==
  [][(Running /\ op.name = "Rollback")
       => /\ releases'[op.target].exists
          /\ (pc' = "done" /\ op'.status # "killed" /\ op'.err \notin SwapFaults)
               => (op'.status = "ok" /\ current' = op.target)]_vars

CallRank(c) ==
  CASE c = "FetchManifest" -> 1
    [] c = "CreateRelease" -> 2
    [] c \in {"UploadFull", "UploadDelta"} -> 3
    [] c = "Activate" -> 4
    [] c = "Cleanup" -> 5
    [] c = "HealthCheck" -> 6

DeployerCalls ==
  {"FetchManifest", "CreateRelease", "UploadFull", "UploadDelta", "Activate",
   "Cleanup", "HealthCheck"}

\* The Deployer calls the running operation has made before this step.
PrevCalls == IF pc = "idle" THEN <<>> ELSE op.calls
LastRank(calls) == IF calls = <<>> THEN 0 ELSE CallRank(calls[Len(calls)])

\* Every file the upload step had to write is in the new release as built.
Uploaded ==
  \A i \in 1..Len(UploadList(op)) :
    Content(op.releaseID, UploadList(op)[i]) = public[UploadList(op)[i]]

\* C10: every Deployer call of a non-dry-run Deploy comes later in the order
\* FetchManifest, CreateRelease, upload, Activate, Cleanup, HealthCheck than
\* the calls made before it (hence each at most once); the upload is called
\* only with the release directory created, Activate only with every file
\* of the upload written, Cleanup and HealthCheck only with the new release
\* current; a Deploy that returns success has made them all up to HealthCheck.
C10_CallOrder ==
  [][(op'.name = "Deploy" /\ ~op'.DryRun /\ op'.calls # PrevCalls)
       => /\ \E c \in DeployerCalls :
               /\ op'.calls = Append(PrevCalls, c)
               /\ CallRank(c) > LastRank(PrevCalls)
               /\ (c = "FetchManifest") <=> (pc = "idle")
               /\ c = "CreateRelease" => PrevCalls = <<"FetchManifest">>
               /\ c \in {"UploadFull", "UploadDelta"} =>
                    /\ "CreateRelease" \in SeqToSet(PrevCalls)
                    /\ Exists(op.releaseID)
                    /\ op.err = ""
               /\ c = "Activate" =>
                    /\ "CreateRelease" \in SeqToSet(PrevCalls)
                    /\ Exists(op.releaseID)
                    /\ op.err = ""
                    /\ Uploaded
               /\ c \in {"Cleanup", "HealthCheck"} =>
                    /\ "Activate" \in SeqToSet(PrevCalls)
                    /\ current = op.releaseID
               /\ c = "HealthCheck" => "Cleanup" \in SeqToSet(PrevCalls)
          /\ (pc' = "done" /\ op'.status = "ok") =>
               op'.calls[Len(op'.calls)] = "HealthCheck"]_vars

\* A delta deploy has returned success after all six calls.
C10_Witness ==
  /\ pc = "done"
  /\ op.name = "Deploy"
  /\ op.status = "ok"
  /\ op.calls = <<"FetchManifest", "CreateRelease", "UploadDelta", "Activate",
                  "Cleanup", "HealthCheck">>

\* C11: once Activate has succeeded in a Deploy, the Cleanup call is followed
\* by the HealthCheck call whether or not Cleanup failed, and the HealthCheck
\* call is followed by Deploy returning success whether or not it failed.
C11_WarningsOnly ==
  [][(op.name = "Deploy" /\ pc \in {"cleanup", "health"} /\ op'.status # "killed")
       => /\ pc = "cleanup" =>
               (pc' = "health" /\ op'.calls = Append(op.calls, "Cleanup"))
          /\ pc = "health" =>
               /\ pc' = "done"
               /\ op'.status = "ok"
               /\ op'.err = ""
               /\ op'.calls = Append(op.calls, "HealthCheck")]_vars

\* A Deploy has returned success although Cleanup and HealthCheck both failed.
C11_Witness ==
  /\ pc = "done"
  /\ op.name = "Deploy"
  /\ op.status = "ok"
  /\ op.warnings = {"cleanup failed", "health check failed"}
  /\ op.calls[Len(op.calls)] = "HealthCheck"
  /\ current = op.releaseID

\* Every file the upload step had to write is in the new release after this step.
UploadedAfter ==
  \A i \in 1..Len(UploadList(op)) :
    ContentIn(releases', inode', op.releaseID, UploadList(op)[i]) = public[UploadList(op)[i]]

\* C12: a Deploy whose manifest build fails, whose FetchManifest fails in the
\* transport or in parsing, whose CreateRelease leaves no release directory
\* or whose upload leaves a file unwritten returns an error at that step;
\* a non-dry-run Deploy returns success only from its HealthCheck step.
C12_ErrorsBeforeActivationAbort ==
  [][/\ (pc = "idle" /\ op'.name = "Deploy" /\ op'.fetchErr \in {"transport", "parse"})
          => (pc' = "done" /\ op'.status = "err")
     /\ (pc = "idle" /\ op'.name = "Deploy" /\ op'.err = "hugo build failed")
          => (pc' = "done" /\ op'.status = "err" /\ op'.calls = <<>>)
     /\ (pc = "create" /\ op'.status # "killed" /\ ~releases'[op.releaseID].exists)
          => (pc' = "done" /\ op'.status = "err")
     /\ (pc = "upload" /\ op'.status # "killed" /\ ~UploadedAfter)
          => (pc' = "done" /\ op'.status = "err")
     /\ (pc' = "done" /\ op'.name = "Deploy" /\ ~op'.DryRun /\ op'.status = "ok")
          => pc = "health"]_vars

\* C13: when every operation so far was a successful deploy and the site
\* files under public/ are those of the last of them, a Deploy whose build and
\* FetchManifest succeed computes an empty `changed` list and, unless --full
\* was given, its upload step has no file to write.
C13_IdenticalBuildNoUpload ==
  [][(/\ pc = "idle" /\ op'.name = "Deploy"
      /\ op'.err = "" /\ op'.fetchErr = ""
      /\ lastBuild.state = "deployed"
      /\ BuildFiles(public') = lastBuild.files)
       => /\ op'.changed = <<>>
          /\ (pc' = "create" /\ ~op'.Full) => UploadList(op') = <<>>]_vars

\* The keepN releases created last among those on disk: release IDs are
\* handed out in creation order.
NewestCreated(keepN) ==
  {r \in ExistingReleases : Cardinality({q \in ExistingReleases : q > r}) < keepN}

\* C14: a Cleanup(keepN) that returns no error, on its own or within a
\* Deploy, leaves every release among the keepN created last on disk and
\* removes every other release except the current one; with at most keepN
\* releases on disk it removes nothing.
C14_CleanupKeepsNewest ==
  [][\A keepN \in 0..MaxKeep :
       (Cleanup(keepN, TRUE) \/ DeployCleanup(keepN, TRUE)) =>
         \A r \in ExistingReleases :
           /\ r \in NewestCreated(keepN) => releases'[r].exists
           /\ (r \notin NewestCreated(keepN) /\ r # current) => ~releases'[r].exists]_vars

\* ---------------------------------------------------------------- properties of CalculateDelta
Returned == deltaCall.phase = "returned"
LocalKeys == DOMAIN deltaCall.local.Files
RemoteKeys == DOMAIN deltaCall.remote.Files
ChangedSet == SeqToSet(deltaCall.result.Changed)
UnchangedSet == SeqToSet(deltaCall.result.Unchanged)
DeletedSet == SeqToSet(deltaCall.result.Deleted)

\* C15: in the result of CalculateDelta(local, remote), changed and unchanged
\* together hold exactly the paths of local and share none, and deleted
\* holds exactly the paths of remote that local does not have.
C15_DeltaPartition ==
  Returned =>
    /\ ChangedSet \cup UnchangedSet = LocalKeys
    /\ ChangedSet \cap UnchangedSet = {}
    /\ DeletedSet = RemoteKeys \ LocalKeys

\* A call has returned with a changed, an unchanged and a deleted path.
C15_Witness ==
  /\ Returned
  /\ ChangedSet # {} /\ UnchangedSet # {} /\ DeletedSet # {}

\* C16: a path of local is in changed exactly when remote lacks it or holds
\* another digest for it, and in unchanged otherwise; sizes play no part.
C16_ChangedIffDigestDiffers ==
  Returned =>
    \A p \in LocalKeys :
      LET differs == \/ p \notin RemoteKeys
                     \/ deltaCall.remote.Files[p].SHA256 # deltaCall.local.Files[p].SHA256
      IN /\ p \in ChangedSet <=> differs
         /\ p \in UnchangedSet <=> ~differs

\* The shape of the documented example, local {a: h1, b: h2} against remote
\* {a: h1, c: h3}, gives changed [b], unchanged [a], deleted [c]; here with
\* the sizes of a differing on the two sides.
C16_Witness ==
  /\ Returned
  /\ deltaCall.local.Files = [p \in {"a.txt", "healthz.json"} |->
                                IF p = "a.txt" THEN [SHA256 |-> 1, Size |-> 1]
                                ELSE [SHA256 |-> 2, Size |-> 2]]
  /\ deltaCall.remote.Files = [p \in {"a.txt", "index.html"} |->
                                 IF p = "a.txt" THEN [SHA256 |-> 1, Size |-> 2]
                                 ELSE [SHA256 |-> 3, Size |-> 1]]
  /\ deltaCall.result = [Changed |-> <<"healthz.json">>, Unchanged |-> <<"a.txt">>,
                         Deleted |-> <<"index.html">>]

\* C17: CalculateDelta(M, M) returns no changed and no deleted path, and
\* every path of M, once, as unchanged.
C17_DeltaOfSelf ==
  (Returned /\ deltaCall.local = deltaCall.remote) =>
    /\ deltaCall.result.Changed = <<>>
    /\ deltaCall.result.Deleted = <<>>
    /\ UnchangedSet = LocalKeys
    /\ Len(deltaCall.result.Unchanged) = Cardinality(LocalKeys)

\* A call with the same three-file manifest on both sides has returned.
C17_Witness ==
  /\ Returned
  /\ deltaCall.local = deltaCall.remote
  /\ LocalKeys = DeltaPaths

\* s is in strictly ascending lexicographic order.
StrictlyAscending(s) ==
  \A i, j \in 1..Len(s) : i < j => PathIndex(s[i]) < PathIndex(s[j])

\* C18: changed, unchanged and deleted each come out in strictly ascending
\* order, and the result is the same whichever orders the range loops
\* visit the two maps in.
C18_SortedWhateverTheOrder ==
  Returned =>
    /\ StrictlyAscending(deltaCall.result.Changed)
    /\ StrictlyAscending(deltaCall.result.Unchanged)
    /\ StrictlyAscending(deltaCall.result.Deleted)
    /\ \A localOrder \in rangeOrders(deltaCall.local.Files),
          remoteOrder \in rangeOrders(deltaCall.remote.Files) :
         CalculateDeltaIn(deltaCall.local, deltaCall.remote, localOrder, remoteOrder)
           = deltaCall.result
    /\ deltaCall.result = CalculateDelta(deltaCall.local, deltaCall.remote)

\* A call has returned a list of three paths and a list of two.
C18_Witness ==
  /\ Returned
  /\ Len(deltaCall.result.Changed) = 3
  /\ Len(deltaCall.result.Deleted) = 0
  /\ Cardinality(RemoteKeys) = 2

\* ---------------------------------------------------------------- properties of GenerateManifestWithWorkers
\* The regular files under the root other than build-manifest.json.
Enumerated ==
  {p \in PathSet : genCall.dir[p] # NoFile /\ p # "build-manifest.json"}

GenReturned == genCall.phase = "returned"

\* C19: a call with workers >= 1 that returns a manifest and no error
\* returns one whose Files holds an entry, with the digest and size of the
\* file, for every regular file under the root except build-manifest.json,
\* and no other entry, however the workers interleave.
C19_ManifestCoversFiles ==
  (GenReturned /\ genCall.workers >= 1 /\ genCall.ret.err = NoErr) =>
    /\ genCall.ret.manifest # NilManifest
    /\ DOMAIN genCall.ret.manifest.Files = Enumerated
    /\ \A p \in Enumerated : genCall.ret.manifest.Files[p] = hashFile(genCall.dir[p])

\* Two workers have hashed three files next to a build-manifest.json, each
\* of the two having inserted one, and the manifest has been returned.
C19_Witness ==
  /\ GenReturned
  /\ genCall.workers = 2
  /\ genCall.ret.err = NoErr
  /\ genCall.dir["build-manifest.json"] # NoFile
  /\ Cardinality(Enumerated) = 3

\* C20: when hashFile fails for at least one enumerated file, a call with
\* workers >= 1 returns no manifest and the error of one of the failing
\* files, whatever the number of workers, of failing files and the
\* interleaving; no second error is ever held.
C20_HashFailureReturnsError ==
  /\ Len(genCall.errChan) <= 1
  /\ (GenReturned /\ genCall.workers >= 1 /\ ~genCall.walkFails /\ genCall.failing # {}) =>
       /\ genCall.ret.manifest = NilManifest
       /\ genCall.ret.err \in {HashError(p) : p \in genCall.failing}

\* Two workers met three failing files, more than the error channel holds,
\* and the call has returned the error of the file hashed second.
C20_Witness ==
  /\ GenReturned
  /\ genCall.workers = 2
  /\ Cardinality(genCall.failing) = 3
  /\ genCall.ret.err = HashError("healthz.json")

\* Every worker that was started has left its loop.
AllWorkersExited ==
  \A w \in WorkerIDs : genCall.worker[w].pc \in {"none", "exit"}

\* C21: a call with workers >= 1 returns, with the work queue drained and
\* every worker gone, whichever files fail to hash; until then the producer
\* always finds room in fileChan and a worker with an error never waits for
\* errChan.
C21_GenerateTerminates ==
  /\ [](genCall.phase = "push" /\ genCall.pushed < Len(genCall.files)
          => Len(genCall.fileChan) < Len(genCall.files))
  /\ [](\A w \in WorkerIDs : genCall.worker[w].pc = "senderr" => ENABLED WorkerSendErr(w))
  /\ (genCall.phase = "collect" /\ genCall.workers >= 1)
       ~> (/\ GenReturned
           /\ genCall.walkFails \/ (genCall.pushed = Len(genCall.files)
                                     /\ genCall.fileChan = <<>>
                                     /\ genCall.wg = 0
                                     /\ AllWorkersExited
                                     /\ genCall.spawned = genCall.workers))

\* A call with two workers and three failing files, more than errChan can
\* hold, has returned with both workers gone.
C21_Witness ==
  /\ GenReturned
  /\ genCall.workers = 2
  /\ Cardinality(genCall.failing) > errChanCap + 1
  /\ \A w \in WorkerIDs : genCall.worker[w].pc = "exit"

\* ---------------------------------------------------------------- properties of WriteManifest / ReadManifest
\* BuildTime is a time as GenerateManifestWithWorkers sets it: time.Now().UTC(),
\* which is in UTC and carries no monotonic reading.
GeneratedBuildTime(t) == t.loc = "UTC" /\ ~t.mono

\* C22: when WriteManifest(M) has written its file and ReadManifest reads
\* that file, ReadManifest returns no error and a manifest with the Files,
\* the ReleaseID and the BuildTime of M; stated here for the manifests whose
\* BuildTime is one GenerateManifestWithWorkers can set.
C22_ManifestRoundTrip ==
  (/\ ioCall.phase = "read" /\ ioCall.werr = "" /\ ioCall.rerr # "read file"
   /\ GeneratedBuildTime(ioCall.m.BuildTime)) =>
    /\ ioCall.rerr = ""
    /\ ioCall.result = ioCall.m

\* ---------------------------------------------------------------- properties of the backends
\* C23: whatever ListReleases returns has the release directories in the
\* order of their creation, newest first, at most one Release with Current
\* set, and Current set exactly on the directory `current` resolves to.
C23_ListNewestFirst ==
  \A l \in ListReleases :
    /\ \A i, j \in 1..Len(l) : i < j => l[i].ID > l[j].ID
    /\ Cardinality({i \in 1..Len(l) : l[i].Current}) <= 1
    /\ \A i \in 1..Len(l) : l[i].Current <=> (current = l[i].ID)

\* C24: CreateRelease(releaseID), releaseID being new and no fault being
\* injected: when a current release exists the new directory holds the
\* paths and contents of the current release, sharing its storage; when
\* none exists (no link, or a link whose directory is gone) the new
\* directory is empty; `current` and the other directories stay as they were.
C24_CreateReleaseClones ==
  [][CreateRelease(TRUE) =>
       LET r == op.releaseID
       IN /\ Exists(current) =>
               /\ releases'[r].exists
               /\ releases'[r].files = releases[current].files
               /\ TreeIn(releases', inode', r) = Tree(current)
          /\ ~Exists(current) => releases'[r] = EmptyDir
          /\ current' = current
          /\ \A q \in RIDs \ {r} :
               releases'[q] = releases[q] /\ TreeIn(releases', inode', q) = Tree(q)]_vars

\* The running step belongs to a Deployer.Activate call.
InActivate ==
  \/ pc = "validate"
  \/ pc \in {"rmtmp", "symlink", "rename"} /\ op.calls[Len(op.calls)] = "Activate"

\* The step ends the Activate call with success.
ActivateSucceeds ==
  /\ InActivate
  /\ pc = "rename"
  /\ pc' = "cleanup" \/ (pc' = "done" /\ op'.status = "ok")

\* C25: Activate on an existing release directory gets past its validation
\* exactly when healthz.json, index.html and sw.js are all in it, and from
\* there fails only on a fault of the link swap; when it succeeds `current`
\* resolves to the release, and no step of a passing Activate creates,
\* changes or removes a release directory.
C25_ActivateIffMarkers ==
  [][(InActivate /\ Exists(op.target) /\ op'.status # "killed") =>
       /\ pc = "validate" => (MarkerMissing(op.target) <=> (pc' = "done" /\ op'.status = "err"))
       /\ (pc # "validate" /\ op'.status = "err") => op'.err \in SwapFaults
       /\ ActivateSucceeds => (current' = op.target /\ releases'[current'].exists)
       /\ ~(pc = "validate" /\ MarkerMissing(op.target)) =>
            (releases' = releases /\ inode' = inode /\ mtime' = mtime)]_vars

\* An Activate has just succeeded within a Deploy over an older live
\* release: `current` resolves to the new release, which has its markers.
C25_Witness ==
  /\ pc = "cleanup"
  /\ op.calls[Len(op.calls)] = "Activate"
  /\ current = op.target
  /\ ~MarkerMissing(current)
  /\ op.preCurrent # NoRel
  /\ Exists(op.preCurrent)

\* C26: a Deploy that finds no current release on the target, FetchManifest
\* reporting the manifest absent, goes on with an empty remote manifest:
\* every file of the local manifest is in `changed`, `deleted` is empty, and
\* unless it is a dry run the upload step calls UploadFull, which writes
\* every file of public/ into the new release.
C26_FirstDeployUploadsAll ==
  [][/\ (/\ pc = "idle" /\ op'.name = "Deploy"
         /\ ~Exists(current) /\ op'.fetchErr = "not found")
          => /\ SeqToSet(op'.changed) = {p \in PathSet : public'[p] # NoFile /\ p # ManifestName}
             /\ Len(op'.changed) = Cardinality(SeqToSet(op'.changed))
             /\ op'.deleted = <<>>
             /\ op'.status # "err"
             /\ ~op'.DryRun => (pc' = "create" /\ UploadCall(op') = "UploadFull")
     /\ (/\ pc = "upload" /\ ~Exists(current) /\ op.fetchErr = "not found"
         /\ pc' = "validate")
          => /\ op'.calls[Len(op'.calls)] = "UploadFull"
             /\ \A p \in PathSet :
                  ContentIn(releases', inode', op.releaseID, p) = public[p]]_vars

\* A first deploy without --full has uploaded its files with UploadFull.
C26_Witness ==
  /\ pc = "validate"
  /\ op.fetchErr = "not found"
  /\ current = NoRel
  /\ ~op.Full
  /\ op.calls[Len(op.calls)] = "UploadFull"
  /\ Content(op.releaseID, "index.html") # NoFile

\* C27: when no file exists at the configured path, loading the
\* configuration returns no error and yields the built-in environments
\* local and prod, and a command for either of the two names is not ended
\* by the loading: it goes on to its handler.
ConfigFileMissing ==
  cfgCall.files[defaultConfigPath(cfgCall.configPath)].state = "absent"
C27_MissingConfigGivesDefaults ==
  (cfgCall.phase # "off" /\ cfgCall.phase # "start" /\ ConfigFileMissing)
    => /\ cfgCall.err = ""
       /\ cfgCall.config = [nil |-> FALSE, Environments |-> DefaultEnvironments]
       /\ cfgCall.envName \in {"local", "prod"} => cfgCall.phase # "exited"

\* C28: a Deploy whose CreateRelease or upload fails returns an error
\* without calling Activate: `current` is as before, and no release
\* directory is removed, the one just created included.  Up to the end of
\* Activate a Deploy removes a release directory in one case only, the
\* candidate that fails Activate's validation.
BeforeActivated ==
  \/ pc = "idle" /\ op'.name = "Deploy"
  \/ op.name = "Deploy" /\ pc \in {"create", "upload", "validate", "rmtmp", "symlink", "rename"}
C28_FailedDeployLeavesRelease ==
  [][/\ (/\ pc = "create" /\ op'.calls = Append(op.calls, "CreateRelease")
         /\ ~releases'[op.releaseID].exists)
          => /\ pc' = "done" /\ op'.status = "err"
             /\ "Activate" \notin SeqToSet(op'.calls)
             /\ current' = current
             /\ \A r \in RIDs : releases'[r].exists = releases[r].exists
     /\ (pc = "upload" /\ op'.err = "upload")
          => /\ pc' = "done" /\ op'.status = "err"
             /\ "Activate" \notin SeqToSet(op'.calls)
             /\ current' = current
             /\ releases'[op.releaseID].exists
             /\ \A r \in RIDs : releases'[r].exists = releases[r].exists
     /\ BeforeActivated
          => \A r \in RIDs :
               (releases[r].exists /\ ~releases'[r].exists)
                 => /\ pc = "validate" /\ r = op.target
                    /\ MarkerMissing(r)
                    /\ op'.err = "validation failed"]_vars

\* A deploy whose upload failed has returned; its release directory is on
\* disk and is not the current release.
C28_Witness ==
  /\ pc = "done"
  /\ op.name = "Deploy" /\ op.status = "err" /\ op.err = "upload"
  /\ Exists(op.releaseID)
  /\ current # op.releaseID
  /\ "Activate" \notin SeqToSet(op.calls)

\* C29: Rollback(releaseID) with a releaseID that is given and names no
\* release directory returns an error, on either backend, and `current`,
\* the temporary link and every release directory are as before.
C29_RollbackUnknownRelease ==
  [][(/\ pc = "idle" /\ op'.name = "Rollback"
      /\ op'.releaseID # NoRel /\ ~Exists(op'.releaseID))
       => /\ pc' = "done"
          /\ op'.status = "err" /\ op'.err = "release not found"
          /\ current' = current /\ tmpLink' = tmpLink
          /\ releases' = releases /\ inode' = inode /\ mtime' = mtime]_vars

\* A rollback to an unknown release was refused while a release was live.
C29_Witness ==
  /\ pc = "done"
  /\ op.name = "Rollback" /\ op.releaseID # NoRel
  /\ op.err = "release not found"
  /\ ~Exists(op.releaseID)
  /\ Exists(current)

\* C30: with two or more workers, at no time are two workers between
\* mu.Lock() and mu.Unlock(), where the map insert is; a worker holds the
\* mutex only there, never while it takes a path or hashes; and every path
\* collectFiles listed is taken from the channel once, by one worker, which
\* is the one worker that hashes it, once.
InsideLock(w) == genCall.worker[w].pc \in {"insert", "unlock"}
C30_InsertExclusive ==
  (genCall.phase # "off" /\ genCall.workers >= 2)
    => /\ \A v, w \in WorkerIDs : (InsideLock(v) /\ InsideLock(w)) => v = w
       /\ \A w \in WorkerIDs : (genCall.mu = w) <=> InsideLock(w)
       /\ genCall.mu \in WorkerIDs \cup {0}
       /\ \A p \in GenPaths :
            /\ Len(genCall.dequeuedBy[p]) <= 1
            /\ Len(genCall.hashedBy[p]) <= Len(genCall.dequeuedBy[p])
            /\ genCall.hashedBy[p] # <<>> => genCall.hashedBy[p] = genCall.dequeuedBy[p]
            /\ genCall.dequeuedBy[p] # <<>> => p \in Enumerated
       /\ (GenReturned /\ ~genCall.walkFails)
            => \A p \in Enumerated :
                 Len(genCall.dequeuedBy[p]) = 1 /\ Len(genCall.hashedBy[p]) = 1

\* Two workers have each taken a path; one is inserting and the other,
\* done hashing, waits for the mutex.
C30_Witness ==
  /\ genCall.phase # "off" /\ genCall.workers >= 2
  /\ \E v, w \in WorkerIDs :
       /\ v # w
       /\ genCall.worker[v].pc = "insert"
       /\ genCall.worker[w].pc = "lock"
       /\ genCall.dequeuedBy[genCall.worker[v].relPath] = <<v>>
       /\ genCall.hashedBy[genCall.worker[w].relPath] = <<w>>

\* C32: the upload step of a Deploy that is no dry run calls UploadFull
\* when --full is set or the fetched remote manifest has no files;
\* otherwise it calls UploadDelta when `changed` is not empty, and the
\* files UploadDelta writes are those of `changed` and no other; otherwise
\* it calls neither and the target is left as it is.  One Deploy never
\* calls both.
UploadStep == pc = "upload" /\ op'.status # "killed"
C32_UploadChoice ==
  [][/\ (pc = "idle" /\ op'.name = "Deploy" /\ pc' = "create")
          => (op'.remoteEmpty <=>
                \/ op'.fetchErr # ""
                \/ DOMAIN ReadManifest(Content(current, ManifestName)).Files = {})
     /\ UploadStep
          => /\ (op.Full \/ op.remoteEmpty)
                  => op'.calls = Append(op.calls, "UploadFull")
             /\ (~(op.Full \/ op.remoteEmpty) /\ op.changed # <<>>)
                  => /\ op'.calls = Append(op.calls, "UploadDelta")
                     /\ \A q \in PathSet \ SeqToSet(op.changed) :
                          releases'[op.releaseID].files[q] = releases[op.releaseID].files[q]
                     /\ pc' = "validate"
                          => \A q \in SeqToSet(op.changed) :
                               ContentIn(releases', inode', op.releaseID, q) = public[q]
             /\ (~(op.Full \/ op.remoteEmpty) /\ op.changed = <<>>)
                  => /\ op'.calls = op.calls
                     /\ releases' = releases /\ inode' = inode /\ mtime' = mtime
     /\ ~("UploadFull" \in SeqToSet(op'.calls) /\ "UploadDelta" \in SeqToSet(op'.calls))]_vars

\* A deploy whose build equals what the target's manifest lists got past
\* the upload step without an upload call.
C32_Witness ==
  /\ pc = "validate"
  /\ ~op.Full /\ ~op.remoteEmpty /\ op.changed = <<>>
  /\ op.calls = <<"FetchManifest", "CreateRelease">>

\* C37: in a deploy that cloned the current release and uploaded with
\* UploadDelta, every path of `deleted` is in the new release after the
\* upload, with the content it has in the release that was cloned, and the
\* paths of the new release are those of the cloned release together with
\* the uploaded ones.
PathsIn(rels, ino, r) == {q \in PathSet : ContentIn(rels, ino, r, q) # NoFile}
DeploySucceeds ==
  /\ pc = "health" /\ pc' = "done"
  /\ op'.name = "Deploy" /\ op'.status = "ok"
Digests(m) == [q \in DOMAIN m.Files |-> m.Files[q].SHA256]
C34_ManifestDescribesRelease ==
  [][DeploySucceeds
       => LET doc == ContentIn(releases', inode', current', ManifestName)
              localManifest == GenerateManifestWithWorkers(public, op.releaseID)
          IN /\ ManifestReadable(doc)
             /\ ReadManifest(doc).ReleaseID = localManifest.ReleaseID
             /\ Digests(ReadManifest(doc)) = Digests(localManifest)]_vars

\* C35: between operations, whatever Deploys (successful or not), Rollbacks
\* and Cleanups have run, a `current` link that exists resolves to a release
\* directory that exists and holds healthz.json, index.html and sw.js.
C35_CurrentIsValid ==
  (pc = "idle" /\ current # NoRel)
    => (Exists(current) /\ ~MarkerMissing(current))

\* C36: the release a Rollback with an empty release ID makes current is
\* one `current` has resolved to before; the directory a deploy left
\* behind when its upload failed, never activated, is not chosen.
C36_RollbackToActivated ==
  [][(/\ op.name = "Rollback" /\ op.releaseID = NoRel
      /\ pc = "rename" /\ current' # current)
       => current' \in activated]_vars

\* C38: whatever the workers argument, zero and negative included, the call
\* returns, and a call that returns a manifest and no error returns one
\* with an entry for every enumerated file.
C38_AnyWorkerCount ==
  /\ (genCall.phase = "collect") ~> GenReturned
  /\ []((GenReturned /\ genCall.ret.err = NoErr)
          => /\ genCall.ret.manifest # NilManifest
             /\ Enumerated \subseteq DOMAIN genCall.ret.manifest.Files)

\* C39: an Activate that finds the temporary link of an interrupted call
\* is not stopped by it: the link it goes on to rename is its own, and its
\* rename leaves `current` resolving to its release with no temporary link
\* left.
StaleTmp == op.preTmp # NoRel /\ op.status = "running"
C39_ActivateAfterInterrupt ==
  [][/\ (StaleTmp /\ pc = "symlink") => SymlinkCreated(TRUE)
     /\ (StaleTmp /\ pc = "rename") => tmpLink = op.target
     /\ (StaleTmp /\ pc = "rename" /\ op'.status # "killed" /\ op'.err \notin SwapFaults)
          => /\ current' = op.target
             /\ tmpLink' = NoRel
             /\ pc' = "cleanup" \/ (pc' = "done" /\ op'.status = "ok")]_vars

\* A Deploy has activated its release although the temporary link of an
\* interrupted call, to another release, was in the way.
C39_Witness ==
  /\ pc = "cleanup"
  /\ op.preTmp # NoRel /\ op.preTmp # op.target
  /\ current = op.target
  /\ tmpLink = NoRel

\* C33: when a Deploy that is no dry run returns success, every file the
\* local manifest lists has, in the release `current` resolves to, the
\* content it has in the build directory, whatever deploys came before.
C33_LiveContentIsBuild ==
  [][DeploySucceeds
       => \A q \in collectFiles(public) :
            ContentIn(releases', inode', current', q) = public[q]]_vars

\* C31: two Activate calls for different valid releases A and B run concurrently
\* against one target.  After both have returned, `current` resolves to A or to
\* B, it resolves to the release of the call whose rename happened last, and a
\* call that returned success performed a rename that installed a link to its
\* own release.
BothReturned ==
  /\ actCall.phase = "run"
  /\ \A c \in Callers : actCall.valid[c] /\ actCall.pc[c] = "returned"

C31_ConcurrentActivate ==
  BothReturned =>
    /\ actCall.current \in Callers
    /\ actCall.renames # <<>> =>
         actCall.current = actCall.renames[Len(actCall.renames)].by
    /\ \A c \in Callers :
         actCall.err[c] = NoErr =>
           \E i \in 1..Len(actCall.renames) :
             actCall.renames[i] = [by |-> c, installed |-> c]

====
